---- MODULE Spec2Model ----
(***************************************************************************)
(* Model of the browser PDF viewer: the text overlay builder               *)
(* (PDFViewer.createTextLayer), the search highlighter (SearchManager) and *)
(* the selection tracker (PDFViewer.handleSelectionChange and friends),    *)
(* the page render passes, the upload server (server.js) and the chat      *)
(* panel (ChatManager).                                                    *)
(*                                                                         *)
(* Strings are sequences of one-character strings (UTF-16 code units).     *)
(* The DOM is modelled as data: a page's text layer is a sequence of       *)
(* overlay spans, a span is a record with its geometry and the sequence of *)
(* its child nodes, a child is a text node or a highlight marker element.  *)
(***************************************************************************)
EXTENDS Integers, Sequences, FiniteSets, TLC

(***************************************************************************)
(* Bounds of the model.                                                    *)
(***************************************************************************)
NumPages == 2

MaxItems == 2

MaxTimers == 2

MaxBuilds == 2

(***************************************************************************)
(* Strings.                                                                *)
(***************************************************************************)
\* U+0130 (capital I with dot above) and U+0307 (combining dot above), the
\* one code unit whose lower-casing is two code units long.
DotI == "U0130"

CombDot == "U0307"

Abs(x) == IF x < 0 THEN -x ELSE x

Min(a, b) == IF a < b THEN a ELSE b

Max(a, b) == IF a > b THEN a ELSE b

\* String.prototype.toLowerCase on one code unit.
LowerChar(c) ==
  CASE c = "A" -> <<"a">>
    [] c = "C" -> <<"c">>
    [] c = "H" -> <<"h">>
    [] c = "T" -> <<"t">>
    [] c = "W" -> <<"w">>
    [] c = "D" -> <<"d">>
    [] c = "E" -> <<"e">>
    [] c = "F" -> <<"f">>
    [] c = "I" -> <<"i">>
    [] c = "L" -> <<"l">>
    [] c = "N" -> <<"n">>
    [] c = "P" -> <<"p">>
    [] c = "S" -> <<"s">>
    [] c = "X" -> <<"x">>
    [] c = DotI -> <<"i", CombDot>>
    [] OTHER -> <<c>>

RECURSIVE ToLowerCase(_)
ToLowerCase(s) ==
  IF s = <<>> THEN <<>> ELSE LowerChar(Head(s)) \o ToLowerCase(Tail(s))

IsSpace(c) == c = " "

RECURSIVE TrimStart(_)
TrimStart(s) ==
  IF s # <<>> /\ IsSpace(Head(s)) THEN TrimStart(Tail(s)) ELSE s

RECURSIVE TrimEnd(_)
TrimEnd(s) ==
  IF s # <<>> /\ IsSpace(s[Len(s)]) THEN TrimEnd(SubSeq(s, 1, Len(s) - 1)) ELSE s

\* String.prototype.trim
Trim(s) == TrimEnd(TrimStart(s))

(***************************************************************************)
(* JavaScript numbers as far as the page counter needs them: the integers  *)
(* and NaN.  NaN is kept apart from every integer the viewer can compute,  *)
(* every comparison with it is false and arithmetic on it yields it.       *)
(***************************************************************************)
NaN == -(10 ^ 6)

JsLess(a, b) == a # NaN /\ b # NaN /\ a < b

JsLessEq(a, b) == a # NaN /\ b # NaN /\ a <= b

JsAdd(a, b) == IF a = NaN \/ b = NaN THEN NaN ELSE a + b

Digits == <<"0", "1", "2", "3", "4", "5", "6", "7", "8", "9">>

IsDigit(c) == \E d \in 1..Len(Digits) : Digits[d] = c

DigitValue(c) == (CHOOSE d \in 1..Len(Digits) : Digits[d] = c) - 1

\* The value of the longest prefix of digits of s, after the digits read so far.
RECURSIVE ParseDigits(_, _)
ParseDigits(s, acc) ==
  IF s = <<>> \/ ~IsDigit(Head(s)) THEN acc
  ELSE ParseDigits(Tail(s), 10 * acc + DigitValue(Head(s)))

\* parseInt(s): leading white space is skipped, a sign is read, then digits up
\* to the first character that is none; NaN when there is no digit.
ParseInt(s) ==
  LET t == TrimStart(s)
      signed == t # <<>> /\ Head(t) \in {"-", "+"}
      body == IF signed THEN Tail(t) ELSE t
  IN IF body = <<>> \/ ~IsDigit(Head(body)) THEN NaN
     ELSE IF signed /\ Head(t) = "-" THEN -ParseDigits(body, 0)
     ELSE ParseDigits(body, 0)

\* String.prototype.substring(a, b), 0-based, end-exclusive, arguments clamped
\* to [0, length].
Substring(s, a, b) ==
  LET lo == Min(Max(a, 0), Len(s))
      hi == Min(Max(b, 0), Len(s))
  IN SubSeq(s, Min(lo, hi) + 1, Max(lo, hi))

SubstringFrom(s, a) == Substring(s, a, Len(s))

OccursAt(hay, needle, i) ==
  /\ i >= 0
  /\ i + Len(needle) <= Len(hay)
  /\ SubSeq(hay, i + 1, i + Len(needle)) = needle

\* String.prototype.indexOf(needle, from): 0-based, -1 when absent.
IndexOf(hay, needle, from) ==
  LET hits == {i \in from..(Len(hay) - Len(needle)) : OccursAt(hay, needle, i)}
  IN IF hits = {} THEN -1 ELSE CHOOSE i \in hits : \A j \in hits : i <= j

\* String.prototype.includes
Includes(hay, needle) == IndexOf(hay, needle, 0) # -1

RECURSIVE Iota(_)
Iota(n) == IF n = 0 THEN <<>> ELSE Append(Iota(n - 1), n)

RECURSIVE Flatten(_)
Flatten(ss) == IF ss = <<>> THEN <<>> ELSE Head(ss) \o Flatten(Tail(ss))

(***************************************************************************)
(* Geometry (the rendering library's 2D affine helpers).                   *)
(***************************************************************************)
\* pdfjsLib.Util.transform(m1, m2): the product of two affine matrices
\* [a, b, c, d, e, f], 1-based here.
UtilTransform(m1, m2) ==
  << m1[1] * m2[1] + m1[3] * m2[2],
     m1[2] * m2[1] + m1[4] * m2[2],
     m1[1] * m2[3] + m1[3] * m2[4],
     m1[2] * m2[3] + m1[4] * m2[4],
     m1[1] * m2[5] + m1[3] * m2[6] + m1[5],
     m1[2] * m2[5] + m1[4] * m2[6] + m1[6] >>

\* Math.sqrt on the perfect squares the model's matrices produce (floor
\* elsewhere).
Sqrt(n) == CHOOSE r \in 0..n : r * r <= n /\ (r + 1) * (r + 1) > n

\* Math.abs(Math.atan2(b, a)) > 0.01 for integer a, b: the angle is 0 only
\* for b = 0, a >= 0; tan(0.01) is 0.01 to four digits.
AngleAboveThreshold(b, a) ==
  IF b = 0 THEN a < 0 ELSE (a <= 0 \/ 100 * Abs(b) > a)

\* page.getViewport({scale}): the page's view box scaled, optionally with the
\* y axis flipped (PDF user space has its origin at the bottom left).
GetViewport(page, s) ==
  [ width |-> page.box[1] * s,
    height |-> page.box[2] * s,
    transform |-> IF page.flip
                    THEN <<s, 0, 0, -s, 0, page.box[2] * s>>
                    ELSE <<s, 0, 0, s, 0, 0>> ]

(***************************************************************************)
(* DOM nodes.                                                              *)
(***************************************************************************)
TextNode(s) == [kind |-> "text", data |-> s, cls |-> "", match |-> -1]

\* <span class="cls" data-search-match="k">s</span>
MarkNode(s, c, k) == [kind |-> "mark", data |-> s, cls |-> c, match |-> k]

\* Node.textContent of an overlay span: the concatenation of its children's
\* text.
TextContent(span) ==
  Flatten([i \in 1..Len(span.children) |-> span.children[i].data])

\* A style value left unset (width, height).
Unset == -1

(***************************************************************************)
(* PDFViewer.createTextLayer                                               *)
(***************************************************************************)
\* textItem.transform is undefined: Util.transform reads m2[0] of undefined
\* and throws, the per-item catch swallows it.
ItemThrows(item) == item.transform = <<>>

\* Mutant: only the empty string is skipped, the trim test is missing.
ItemSkippedEmptyOnly(item) == item.str = <<>>

\* !textItem.str || textItem.str.trim() === ''
ItemSkipped(item) == item.str = <<>> \/ Trim(item.str) = <<>>

\* An array shorter than six reads as undefined beyond its end: here 0, the
\* entries computed from it being NaN (see IsNumber).
Padded(m) == [k \in 1..6 |-> IF k <= Len(m) THEN m[k] ELSE 0]

\* Entry k (1-based) of Util.transform(viewport.transform, m2) is a number,
\* not NaN: entries 1-2 read m2[1..2], 3-4 read m2[3..4], 5-6 read m2[5..6].
IsNumber(m2, k) == Len(m2) >= 2 * ((k + 1) \div 2)

\* Mutant: the matrix is read one position too early (left = d, top = e).
ItemSpanShifted(item, viewport) ==
  LET transform == UtilTransform(viewport.transform, Padded(item.transform))
  IN [ children |-> <<TextNode(item.str)>>,
       left |-> transform[4],
       top |-> transform[5],
       fontSize |-> Sqrt(transform[3] * transform[3] + transform[4] * transform[4]),
       rotated |-> AngleAboveThreshold(transform[2], transform[1]),
       width |-> Unset,
       height |-> Unset ]

\* Mutant: the font size is taken from b and d of the composed matrix.
ItemSpanNormBD(item, viewport) ==
  LET transform == UtilTransform(viewport.transform, Padded(item.transform))
  IN [ children |-> <<TextNode(item.str)>>,
       left |-> transform[5],
       top |-> transform[6],
       fontSize |-> Sqrt(transform[2] * transform[2] + transform[4] * transform[4]),
       rotated |-> AngleAboveThreshold(transform[2], transform[1]),
       width |-> Unset,
       height |-> Unset ]

\* The span built for one text item (the body of the try block).  A style
\* assignment of 'NaNpx' is dropped by the style object: the value stays
\* unset; Math.abs(NaN) > 0.01 is false.
ItemSpan(item, viewport) ==
  LET transform == UtilTransform(viewport.transform, Padded(item.transform))
      num(k) == IsNumber(item.transform, k)
      fontHeight == Sqrt(transform[3] * transform[3] + transform[4] * transform[4])
      sized == item.width # 0 /\ item.height # 0
  IN [ children |-> <<TextNode(item.str)>>,
       left |-> IF num(5) THEN transform[5] ELSE Unset,
       top |-> IF num(6) THEN transform[6] ELSE Unset,
       fontSize |-> IF num(3) /\ num(4) THEN fontHeight ELSE Unset,
       rotated |-> num(1) /\ num(2) /\ AngleAboveThreshold(transform[2], transform[1]),
       width |-> IF sized /\ num(1) /\ num(3)
                   THEN Abs(transform[1] * item.width + transform[3] * item.height)
                   ELSE Unset,
       height |-> IF sized /\ num(2) /\ num(4)
                    THEN Abs(transform[2] * item.width + transform[4] * item.height)
                    ELSE Unset ]

\* The for loop over textContent.items.
RECURSIVE BuildSpans(_, _)
BuildSpans(items, viewport) ==
  IF items = <<>> THEN <<>>
  ELSE LET item == Head(items)
           rest == BuildSpans(Tail(items), viewport)
       IN IF ItemSkipped(item) \/ ItemThrows(item)
            THEN rest
            ELSE <<ItemSpan(item, viewport)>> \o rest

\* Mutant: the container is not emptied before the spans are appended.
CreateTextLayerAppend(textContent, container, viewport) ==
  IF ~textContent.hasItems THEN container
  ELSE container \o BuildSpans(textContent.items, viewport)

\* createTextLayer(textContent, container, viewport): the container's new
\* children.  A text content without an item list leaves the container alone.
CreateTextLayer(textContent, container, viewport) ==
  IF ~textContent.hasItems THEN container
  ELSE BuildSpans(textContent.items, viewport)

(***************************************************************************)
(* SearchManager: the operations on the DOM and on the match list.         *)
(* `pgs` is the sequence of the document's .textLayer elements in document *)
(* order, each [spans |-> its span children].                              *)
(***************************************************************************)
\* Node.normalize() on a span's children: empty text nodes go, adjacent text
\* nodes merge.
RECURSIVE Normalize(_)
Normalize(children) ==
  IF children = <<>> THEN <<>>
  ELSE LET c == Head(children)
           rest == Normalize(Tail(children))
       IN IF c.kind = "text" /\ c.data = <<>> THEN rest
          ELSE IF c.kind = "text" /\ rest # <<>> /\ Head(rest).kind = "text"
            THEN <<TextNode(c.data \o Head(rest).data)>> \o Tail(rest)
          ELSE <<c>> \o rest

HasMark(span) == \E j \in 1..Len(span.children) : span.children[j].kind = "mark"

\* Mutant: the selector forgets '.search-current'.
IsHighlightOrdinaryOnly(c) == c.kind = "mark" /\ c.cls = "search-highlight"

\* The markers querySelectorAll('.search-highlight, .search-current') finds.
IsHighlight(c) ==
  c.kind = "mark" /\ c.cls \in {"search-highlight", "search-current"}

\* Mutant: the marker is removed without putting its text back.
UnwrapSpanDropText(span) ==
  [span EXCEPT !.children =
     Normalize([j \in 1..Len(span.children) |->
                  IF span.children[j].kind = "mark"
                    THEN TextNode(<<>>)
                    ELSE span.children[j]])]

\* replaceChild(createTextNode(highlight.textContent), highlight) for every
\* selected marker of the span, then parent.normalize().
UnwrapSpan(span) ==
  IF \E j \in 1..Len(span.children) : IsHighlight(span.children[j])
    THEN [span EXCEPT !.children =
            Normalize([j \in 1..Len(span.children) |->
                         IF IsHighlight(span.children[j])
                           THEN TextNode(span.children[j].data)
                           ELSE span.children[j]])]
    ELSE span

\* clearSearchHighlights()
ClearSearchHighlights(pgs) ==
  [p \in 1..Len(pgs) |->
     [pgs[p] EXCEPT !.spans = [i \in 1..Len(pgs[p].spans) |-> UnwrapSpan(pgs[p].spans[i])]]]

\* The index used to cut the original text: text.indexOf(searchTermLower, 0)
\* on the lower-cased text.
MatchIndex(originalText, searchTerm) ==
  IndexOf(ToLowerCase(originalText), ToLowerCase(searchTerm), 0)

\* The new children of a span whose text contains the term: before text,
\* marker, after text (span.innerHTML = newContent.innerHTML).
HighlightChildren(originalText, searchTerm, k) ==
  LET index == MatchIndex(originalText, searchTerm)
      beforeText == Substring(originalText, 0, index)
      matchText == Substring(originalText, index, index + Len(searchTerm))
      afterText == SubstringFrom(originalText, index + Len(searchTerm))
  IN (IF beforeText # <<>> THEN <<TextNode(beforeText)>> ELSE <<>>)
       \o <<MarkNode(matchText, "search-highlight", k)>>
       \o (IF afterText # <<>> THEN <<TextNode(afterText)>> ELSE <<>>)

\* The record pushed on searchMatches (its element is a detached copy of the
\* marker and is left out).
MatchRecord(originalText, searchTerm, pageIndex, spanIndex) ==
  LET index == MatchIndex(originalText, searchTerm)
  IN [ pageIndex |-> pageIndex,
       spanIndex |-> spanIndex,
       text |-> Substring(originalText, index, index + Len(searchTerm)) ]

\* The two nested forEach loops of performSearch, from span i of layer p on.
RECURSIVE ScanLayers(_, _, _, _, _)
ScanLayers(pgs, p, i, searchTerm, matches) ==
  IF p > Len(pgs) THEN [pages |-> pgs, matches |-> matches]
  ELSE IF i > Len(pgs[p].spans) THEN ScanLayers(pgs, p + 1, 1, searchTerm, matches)
  ELSE LET originalText == TextContent(pgs[p].spans[i])
       IN IF Includes(ToLowerCase(originalText), ToLowerCase(searchTerm))
            THEN ScanLayers(
                   [pgs EXCEPT ![p].spans[i].children =
                      HighlightChildren(originalText, searchTerm, Len(matches))],
                   p, i + 1, searchTerm,
                   Append(matches, MatchRecord(originalText, searchTerm, p, i - 1)))
            ELSE ScanLayers(pgs, p, i + 1, searchTerm, matches)

\* Positions <<p, i, j>> (layer, span, child) of the markers carrying
\* data-search-match = k.
MarksOf(pgs, k) ==
  UNION { UNION { { <<p, i, j>> : j \in { c \in 1..Len(pgs[p].spans[i].children) :
                                           /\ pgs[p].spans[i].children[c].kind = "mark"
                                           /\ pgs[p].spans[i].children[c].match = k } }
                  : i \in 1..Len(pgs[p].spans) }
          : p \in 1..Len(pgs) }

Before(a, b) ==
  \/ a[1] < b[1]
  \/ a[1] = b[1] /\ a[2] < b[2]
  \/ a[1] = b[1] /\ a[2] = b[2] /\ a[3] <= b[3]

\* document.querySelector('[data-search-match="k"]'): the first in document
\* order, <<>> for null.
QueryMatch(pgs, k) ==
  LET found == MarksOf(pgs, k)
  IN IF found = {} THEN <<>>
     ELSE CHOOSE a \in found : \A b \in found : Before(a, b)

\* The index test of highlightCurrentMatch and scrollToCurrentMatch.
IndexInRange(idx, n) == idx >= 0 /\ idx < n

\* Mutant: the current marker is looked up one-based.
HighlightCurrentMatchOneBased(pgs, idx, n) ==
  LET element == QueryMatch(pgs, idx + 1)
  IN IF IndexInRange(idx, n) /\ element # <<>>
       THEN [pgs EXCEPT
               ![element[1]].spans[element[2]].children[element[3]].cls = "search-current"]
       ELSE pgs

\* highlightCurrentMatch(): every .search-current marker goes back to
\* .search-highlight, then the marker of the current index becomes
\* .search-current.
HighlightCurrentMatch(pgs, idx, n) ==
  LET demoted ==
        [p \in 1..Len(pgs) |->
           [pgs[p] EXCEPT !.spans =
              [i \in 1..Len(pgs[p].spans) |->
                 [pgs[p].spans[i] EXCEPT !.children =
                    [j \in 1..Len(pgs[p].spans[i].children) |->
                       IF pgs[p].spans[i].children[j].cls = "search-current"
                         THEN [pgs[p].spans[i].children[j] EXCEPT !.cls = "search-highlight"]
                         ELSE pgs[p].spans[i].children[j]]]]]]
      element == QueryMatch(demoted, idx)
  IN IF IndexInRange(idx, n) /\ element # <<>>
       THEN [demoted EXCEPT
               ![element[1]].spans[element[2]].children[element[3]].cls = "search-current"]
       ELSE demoted

\* Mutant: the next index does not wrap around.
NextIndexNoWrap(idx, n) == idx + 1

\* (index + 1) % length of goToNextMatch
NextIndex(idx, n) == (idx + 1) % n

\* index <= 0 ? length - 1 : index - 1 of goToPreviousMatch
PreviousIndex(idx, n) == IF idx <= 0 THEN n - 1 ELSE idx - 1

\* The text of #search-results: <<>> for '', <<i, n>> for "i of n".
ResultsText(idx, n) == IF n = 0 THEN <<>> ELSE <<idx + 1, n>>

\* Mutant: no minimum term length.
TermActionNoMinimum(searchTerm) ==
  IF Len(searchTerm) = 0 THEN "clear" ELSE "search"

\* What handleSearch does with the trimmed term: clear, nothing, or search.
TermAction(searchTerm) ==
  IF Len(searchTerm) = 0 THEN "clear"
  ELSE IF Len(searchTerm) < 2 THEN "none"
  ELSE "search"

(***************************************************************************)
(* Inputs: text items and pages of documents.                              *)
(***************************************************************************)
Hello == <<"H", "e", "l", "l", "o">>

World == <<"W", "o", "r", "l", "d">>

Cat == <<"c", "a", "t">>

CatCat == <<"C", "a", "t", " ", "c", "a", "t">>

DotICat == <<DotI, "c", "a", "t">>

Item(s, t, w, h) == [str |-> s, transform |-> t, width |-> w, height |-> h]

ItHello == Item(Hello, <<12, 0, 0, 12, 50, 100>>, 30, 12)

ItWorld == Item(World, <<12, 0, 0, 12, 50, 100>>, 0, 0)

ItCat == Item(Cat, <<10, 0, 0, 10, 20, 30>>, 15, 10)

ItCatCat == Item(CatCat, <<10, 0, 0, 10, 20, 60>>, 35, 10)

ItSpace == Item(<<" ">>, <<10, 0, 0, 10, 35, 30>>, 3, 10)

ItEmpty == Item(<<>>, <<10, 0, 0, 10, 0, 0>>, 0, 0)

ItDotICat == Item(DotICat, <<0, 12, -12, 0, 80, 40>>, 20, 12)

ItNoTransform == Item(Cat, <<>>, 15, 10)

ItSheared == Item(World, <<5, 0, 3, 4, 7, 9>>, 25, 5)

\* A transform that is an array, but of three numbers only.
ItMalformed == Item(Cat, <<10, 0, 0>>, 15, 10)

BuildItems ==
  {ItHello, ItWorld, ItCat, ItCatCat, ItSpace, ItEmpty, ItDotICat,
   ItNoTransform, ItSheared, ItMalformed}

RECURSIVE SeqsUpTo(_, _)
SeqsUpTo(S, n) ==
  IF n = 0 THEN {<<>>}
  ELSE LET shorter == SeqsUpTo(S, n - 1)
       IN shorter \cup {Append(l, x) : l \in shorter, x \in S}

Page(its, b, f) == [items |-> its, box |-> b, flip |-> f]

BuildViewports ==
  { GetViewport(Page(<<>>, <<200, 300>>, f), s) : f \in BOOLEAN, s \in {1, 2} }

PageHello == Page(<<ItHello, ItWorld>>, <<200, 300>>, FALSE)

PageCats == Page(<<ItCat, ItSpace, ItCatCat>>, <<200, 300>>, TRUE)

PageOdd == Page(<<ItEmpty, ItDotICat, ItNoTransform, ItSheared>>, <<300, 200>>, TRUE)

Documents == [1..NumPages -> {PageHello, PageCats, PageOdd}]

\* What the user types into the search box.
SearchInputs ==
  { <<>>, <<" ">>, <<"c">>, <<" ", "C", "A", "T", " ">>, <<"o", "r", "l">> }

\* What a text layer div may hold when createTextLayer is called on it: nothing
\* (a new div), or the spans of an earlier build with a search marker in them
\* (rerenderAllPages reuses the div).
BuildContainers ==
  { <<>>,
    << [ children |-> <<TextNode(<<"W">>), MarkNode(<<"o", "r", "l">>, "search-current", 0),
                        TextNode(<<"d">>)>>,
         left |-> 50, top |-> 100, fontSize |-> 12, rotated |-> FALSE,
         width |-> Unset, height |-> Unset ] >> }

BuildTextContents ==
  {[hasItems |-> FALSE, items |-> <<>>]}
    \cup {[hasItems |-> TRUE, items |-> l] : l \in SeqsUpTo(BuildItems, MaxItems)}

(***************************************************************************)
(* State.                                                                  *)
(***************************************************************************)
VARIABLES
  textContent,         \* createTextLayer's input: [hasItems, items]
  viewport,            \* createTextLayer's input: [width, height, transform]
  container,           \* a text layer div's children: a sequence of spans
  builds,              \* how often createTextLayer ran on the container
  layerHist,           \* the container's children before each of these runs
  file,                \* the document the user opens: a sequence of pages
  pdfDoc,              \* PDFViewer.pdfDoc is set
  currentPage,         \* PDFViewer.currentPage
  scale,               \* PDFViewer.scale
  rendering,           \* PDFViewer.rendering
  renderPos,           \* the page renderAllPages is awaiting, 0 for none
  pages,               \* the .textLayer elements of the viewer, in order
  searchInput,         \* #search-input's value
  searchPending,       \* a debounced handleSearch call is pending
  searchMatches,       \* SearchManager.searchMatches
  currentSearchIndex,  \* SearchManager.currentSearchIndex
  searchResults,       \* #search-results' text
  searchPrevDisabled,  \* #search-prev's disabled
  searchNextDisabled,  \* #search-next's disabled
  hist,                \* history of the search operations (for the properties)
  selection,           \* the document's selection: [text, ranged]
  selTimers,           \* pending settle timers of handleSelectionChange
  mouseTimers,         \* pending settle timers of handleMouseUp
  lastSelectedText,    \* PDFViewer.lastSelectedText (<<>> for null)
  selectionCount,      \* #selection-count's text, a number
  selectionInfoShown,  \* #selection-info is displayed
  contextMenuShown,    \* #context-menu is displayed
  chatManager,         \* window.chatManager exists
  chatInput,           \* #chat-input's value
  sendBtnDisabled,     \* #send-btn's disabled
  selHist,             \* history of the selection handlers (for the properties)
  passes,              \* the renderAllPages and the rerenderAllPages call under way
  sheets,              \* per page container of the viewer: [id, canvas, layer]
  textLayerApi,        \* pdfjsLib.TextLayer.render is a function
  production,          \* server: NODE_ENV is 'production'
  clock,               \* server: Date.now(), in hours
  fileDatabase,        \* server: the metadata Map, in insertion order
  disk,                \* server: the paths present in the uploads directory
  nextId,              \* server: the next uuid
  requestHits,         \* server: limiter's count per IP in the current window
  uploadHits,          \* server: uploadLimiter's count per IP in the window
  served,              \* requests per IP that reached a route in the window
  uploadsServed,       \* upload requests per IP that reached multer
  reply,               \* server: the last response, [route, status]
  apiCalls,            \* chat: the callAPI requests awaiting their response
  chatMessages,        \* chat: the bubbles of #chat-messages, [from, text]
  askAiBtnDisabled,    \* #ask-ai-btn's disabled
  creditCount,         \* #credit-count's text, a number
  apiLog,              \* history of the callAPI calls (for the properties)
  dropdownOpen,        \* #user-dropdown has class 'open'
  itemsExpanded,       \* #dropdown-items has class 'expanded'
  collapseText,        \* #dropdown-collapse's text
  dropTimers           \* UserDropdown's pending timers, in creation order

buildVars == <<textContent, viewport, container, builds, layerHist>>

viewerVars == <<file, pdfDoc, currentPage, scale, rendering, renderPos>>

searchVars ==
  <<searchInput, searchPending, searchMatches, currentSearchIndex,
    searchResults, searchPrevDisabled, searchNextDisabled, hist>>

selVars ==
  <<selection, selTimers, mouseTimers, lastSelectedText, selectionCount,
    selectionInfoShown, contextMenuShown, chatManager, chatInput,
    sendBtnDisabled, selHist>>

renderVars == <<passes, sheets, textLayerApi>>

serverVars ==
  <<production, clock, fileDatabase, disk, nextId, requestHits, uploadHits,
    served,
    uploadsServed, reply>>

chatVars == <<apiCalls, chatMessages, askAiBtnDisabled, creditCount, apiLog>>

dropVars == <<dropdownOpen, itemsExpanded, collapseText, dropTimers>>

restVars == <<serverVars, chatVars, dropVars>>

extVars == <<renderVars, restVars>>

vars == <<buildVars, viewerVars, pages, searchVars, selVars, extVars>>

NoHist ==
  [ op |-> "none", term |-> <<>>, loaded |-> FALSE, n |-> 0, from |-> -1,
    prevOp |-> "none", prevFrom |-> -1, runStart |-> -1, runLen |-> 0 ]

\* The state of a freshly constructed PDFViewer and SearchManager.
ViewerIdle ==
  /\ pdfDoc = FALSE
  /\ currentPage = 1
  /\ scale = 1
  /\ rendering = FALSE
  /\ renderPos = 0
  /\ pages = <<>>

SearchIdle ==
  /\ searchInput = <<>>
  /\ searchPending = FALSE
  /\ searchMatches = <<>>
  /\ currentSearchIndex = -1
  /\ searchResults = <<>>
  /\ searchPrevDisabled = TRUE
  /\ searchNextDisabled = TRUE
  /\ hist = NoHist

NoSelection == [text |-> <<>>, ranged |-> FALSE]

NoSelHist == [op |-> "none", seen |-> <<>>, burst |-> 0]

SelectIdle ==
  /\ selection = NoSelection
  /\ selTimers = 0
  /\ mouseTimers = 0
  /\ lastSelectedText = <<>>
  /\ selectionCount = 0
  /\ selectionInfoShown = FALSE
  /\ contextMenuShown = FALSE
  /\ chatManager = TRUE
  /\ chatInput = <<>>
  /\ sendBtnDisabled = TRUE
  /\ selHist = NoSelHist

\* The kinds of render pass: renderAllPages and rerenderAllPages.
PassKinds == {"all", "re"}

NoPage == Page(<<>>, <<0, 0>>, FALSE)

\* A pass that is not running.
NewPass(kind) ==
  [ kind |-> kind, pos |-> 0, phase |-> "idle", target |-> 0, page |-> NoPage,
    vscale |-> 0, seen |-> <<>> ]

NoPasses == [k \in PassKinds |-> NewPass(k)]

RenderIdle ==
  /\ passes = NoPasses
  /\ sheets = <<>>
  /\ textLayerApi = FALSE

\* The addresses requests come from.
Clients == {"198.51.100.7"}

NoReply == [route |-> "none", status |-> 0]

ServerIdle ==
  /\ production = FALSE
  /\ clock = 0
  /\ fileDatabase = <<>>
  /\ disk = {}
  /\ nextId = 1
  /\ requestHits = [ip \in Clients |-> 0]
  /\ uploadHits = [ip \in Clients |-> 0]
  /\ served = [ip \in Clients |-> 0]
  /\ uploadsServed = [ip \in Clients |-> 0]
  /\ reply = NoReply

ChatIdle ==
  /\ apiCalls = <<>>
  /\ chatMessages = <<>>
  /\ askAiBtnDisabled = FALSE
  /\ creditCount = 95
  /\ apiLog = <<>>

\* The user dropdown as the page delivers it.
DropIdle ==
  /\ dropdownOpen = FALSE
  /\ itemsExpanded = FALSE
  /\ collapseText = "initial"
  /\ dropTimers = <<>>

RestIdle == ServerIdle /\ ChatIdle /\ DropIdle

ExtIdle == RenderIdle /\ RestIdle

BuildIdle ==
  /\ textContent = [hasItems |-> FALSE, items |-> <<>>]
  /\ viewport = GetViewport(Page(<<>>, <<200, 300>>, FALSE), 1)
  /\ container = <<>>
  /\ builds = 0
  /\ layerHist = <<>>

(***************************************************************************)
(* The overlay builder on its own: createTextLayer applied to drawn        *)
(* inputs, repeatedly.                                                     *)
(***************************************************************************)
BuildInit ==
  /\ ExtIdle
  /\ textContent \in BuildTextContents
  /\ viewport \in BuildViewports
  /\ container \in BuildContainers
  /\ builds = 0
  /\ layerHist = <<>>
  /\ file = <<>>
  /\ ViewerIdle
  /\ SearchIdle
  /\ SelectIdle

BuildTextLayer ==
  /\ builds < MaxBuilds
  /\ container' = CreateTextLayer(textContent, container, viewport)
  /\ builds' = builds + 1
  /\ layerHist' = Append(layerHist, container)
  /\ UNCHANGED <<textContent, viewport, viewerVars, pages, searchVars, selVars, extVars>>

BuildNext == BuildTextLayer

SpecBuild == BuildInit /\ [][BuildNext]_vars

(***************************************************************************)
(* Loading a document: loadPDF, renderAllPages, renderPage,                *)
(* renderTextLayer.  The library has no TextLayer.render (pdf.js 3.11), so *)
(* renderTextLayer takes the createTextLayer branch.                       *)
(***************************************************************************)
EmptyLayer == [spans |-> <<>>]

\* page.getTextContent()
GetTextContent(page) == [hasItems |-> TRUE, items |-> page.items]

\* loadPDF once getDocument has resolved, up to renderPage(1)'s first await:
\* the viewer is emptied, page 1's container is added, rendering is set.
LoadPDF ==
  /\ ~pdfDoc
  /\ pdfDoc' = TRUE
  /\ currentPage' = 1
  /\ pages' = <<EmptyLayer>>
  /\ rendering' = TRUE
  /\ renderPos' = 1
  /\ UNCHANGED <<file, scale, buildVars, extVars, selVars, searchVars>>

\* renderPage(renderPos) from the resolution of its awaits to its end, and
\* renderAllPages' loop up to the next renderPage's first await.
RenderPageDone ==
  /\ renderPos >= 1
  /\ LET k == renderPos
         built == [pages EXCEPT ![k].spans =
                     CreateTextLayer(GetTextContent(file[k]), @,
                                     GetViewport(file[k], scale))]
     IN IF k < Len(file)
          THEN /\ pages' = Append(built, EmptyLayer)
               /\ renderPos' = k + 1
               /\ rendering' = TRUE
          ELSE /\ pages' = built
               /\ renderPos' = 0
               /\ rendering' = FALSE
  /\ UNCHANGED <<file, pdfDoc, currentPage, scale, buildVars, extVars, selVars, searchVars>>

(***************************************************************************)
(* SearchManager's handlers.                                               *)
(***************************************************************************)
\* updateSearchResults()
UpdateSearchResults(idx, n) ==
  /\ searchResults' = ResultsText(idx, n)
  /\ searchPrevDisabled' = (n = 0)
  /\ searchNextDisabled' = (n = 0)

\* pdfViewer.goToPage(pageNum)
GoToPage(pageNum) ==
  currentPage' = IF ~pdfDoc \/ JsLess(pageNum, 1) \/ JsLess(Len(file), pageNum)
                   THEN currentPage ELSE pageNum

\* scrollToCurrentMatch() on the DOM pgs
ScrollToCurrentMatch(pgs, idx, matches) ==
  IF IndexInRange(idx, Len(matches)) /\ QueryMatch(pgs, idx) # <<>>
    THEN GoToPage(matches[idx + 1].pageIndex)
    ELSE UNCHANGED currentPage

\* The user edits the search box: the input event arms the debounce.
TypeSearch(v) ==
  /\ v # searchInput
  /\ searchInput' = v
  /\ searchPending' = TRUE
  /\ UNCHANGED <<searchMatches, currentSearchIndex, searchResults,
                 searchPrevDisabled, searchNextDisabled, hist>>
  /\ UNCHANGED <<buildVars, extVars, selVars, viewerVars, pages>>

HistSearch(kind, term) ==
  [ NoHist EXCEPT !.op = kind, !.term = term,
                  !.loaded = (pdfDoc /\ renderPos = 0),
                  !.n = Len(searchMatches), !.from = currentSearchIndex ]

\* performSearch(searchTerm)
PerformSearch(searchTerm) ==
  LET cleared == ClearSearchHighlights(pages)
  IN IF ~pdfDoc \/ searchTerm = <<>>
       THEN /\ pages' = cleared
            /\ searchMatches' = <<>>
            /\ currentSearchIndex' = -1
            /\ UNCHANGED <<searchResults, searchPrevDisabled, searchNextDisabled>>
       ELSE LET scan == ScanLayers(cleared, 1, 1, searchTerm, <<>>)
                n == Len(scan.matches)
            IN /\ searchMatches' = scan.matches
               /\ currentSearchIndex' = IF n > 0 THEN 0 ELSE -1
               /\ pages' = IF n > 0 THEN HighlightCurrentMatch(scan.pages, 0, n)
                                    ELSE scan.pages
               /\ UpdateSearchResults(IF n > 0 THEN 0 ELSE -1, n)

\* handleSearch(), run by the debounce timer
HandleSearch ==
  /\ searchPending
  /\ searchPending' = FALSE
  /\ LET searchTerm == Trim(searchInput)
         action == TermAction(searchTerm)
     IN CASE action = "clear" ->
               /\ pages' = ClearSearchHighlights(pages)
               /\ searchMatches' = <<>>
               /\ currentSearchIndex' = -1
               /\ UpdateSearchResults(-1, 0)
               /\ hist' = HistSearch("searchEmpty", searchTerm)
          [] action = "none" ->
               /\ UNCHANGED <<pages, searchMatches, currentSearchIndex, searchResults,
                              searchPrevDisabled, searchNextDisabled>>
               /\ hist' = HistSearch("searchShort", searchTerm)
          [] OTHER ->
               /\ PerformSearch(searchTerm)
               /\ hist' = HistSearch("search", searchTerm)
  /\ UNCHANGED <<searchInput, buildVars, extVars, selVars, viewerVars>>

\* clearSearch() (Escape in the search box)
ClearSearch ==
  /\ searchInput' = <<>>
  /\ pages' = ClearSearchHighlights(pages)
  /\ searchMatches' = <<>>
  /\ currentSearchIndex' = -1
  /\ UpdateSearchResults(-1, 0)
  /\ hist' = HistSearch("clear", <<>>)
  /\ UNCHANGED <<searchPending, buildVars, extVars, selVars, viewerVars>>

HistNav(kind) ==
  LET n == Len(searchMatches)
      fresh == kind = "next" /\ (hist.runLen = 0 \/ hist.runLen >= n)
  IN [ hist EXCEPT !.op = kind, !.n = n, !.from = currentSearchIndex,
                   !.prevOp = IF hist.op \in {"next", "prev"} THEN hist.op ELSE "none",
                   !.prevFrom = IF hist.op \in {"next", "prev"} THEN hist.from ELSE -1,
                   !.runStart = IF kind # "next" THEN -1
                                ELSE IF fresh THEN currentSearchIndex
                                ELSE hist.runStart,
                   !.runLen = IF kind # "next" THEN 0
                              ELSE IF fresh THEN 1
                              ELSE hist.runLen + 1 ]

\* The body shared by goToNextMatch and goToPreviousMatch once the new index
\* is known: highlightCurrentMatch(), scrollToCurrentMatch().
MoveTo(idx) ==
  LET n == Len(searchMatches)
      marked == HighlightCurrentMatch(pages, idx, n)
  IN /\ currentSearchIndex' = idx
     /\ pages' = marked
     /\ UpdateSearchResults(idx, n)
     /\ ScrollToCurrentMatch(marked, idx, searchMatches)

\* goToNextMatch()
GoToNextMatch ==
  /\ Len(searchMatches) # 0
  /\ MoveTo(NextIndex(currentSearchIndex, Len(searchMatches)))
  /\ hist' = HistNav("next")
  /\ UNCHANGED <<searchInput, searchPending, searchMatches, buildVars, extVars, selVars,
                 file, pdfDoc, scale, rendering, renderPos>>

\* goToPreviousMatch()
GoToPreviousMatch ==
  /\ Len(searchMatches) # 0
  /\ MoveTo(PreviousIndex(currentSearchIndex, Len(searchMatches)))
  /\ hist' = HistNav("prev")
  /\ UNCHANGED <<searchInput, searchPending, searchMatches, buildVars, extVars, selVars,
                 file, pdfDoc, scale, rendering, renderPos>>

SearchInit ==
  /\ ExtIdle
  /\ file \in Documents
  /\ ViewerIdle
  /\ SearchIdle
  /\ BuildIdle
  /\ SelectIdle

SearchNext ==
  \/ LoadPDF
  \/ RenderPageDone
  \/ \E v \in SearchInputs : TypeSearch(v)
  \/ HandleSearch
  \/ ClearSearch
  \/ GoToNextMatch
  \/ GoToPreviousMatch

SpecSearch == SearchInit /\ [][SearchNext]_vars

(***************************************************************************)
(* Properties of the search highlighter.                                   *)
(***************************************************************************)
\* The overlay as createTextLayer built it, with no search markup: layer p
\* is built once renderAllPages has moved past page p.
BuiltLayers ==
  [p \in 1..Len(pages) |->
     IF renderPos = 0 \/ p < renderPos
       THEN [spans |-> BuildSpans(file[p].items, GetViewport(file[p], scale))]
       ELSE EmptyLayer]

AllMarks(pgs) ==
  UNION { UNION { { <<p, i, j>> : j \in { c \in 1..Len(pgs[p].spans[i].children) :
                                           pgs[p].spans[i].children[c].kind = "mark" } }
                  : i \in 1..Len(pgs[p].spans) }
          : p \in 1..Len(pgs) }

ChildAt(pgs, pos) == pgs[pos[1]].spans[pos[2]].children[pos[3]]

CurrentMarks(pgs) == { pos \in AllMarks(pgs) : ChildAt(pgs, pos).cls = "search-current" }

\* C1: a search with an empty (or whitespace-only) term leaves the match list
\* empty, the current index at -1 and no highlight marker in the overlay.
C1_EmptySearchClears ==
  hist.op = "searchEmpty" =>
    /\ searchMatches = <<>>
    /\ currentSearchIndex = -1
    /\ AllMarks(pages) = {}

\* An empty search has run on a state that had matches and a current match
\* beyond the first, typed as a blank.
C1_Witness ==
  /\ hist.op = "searchEmpty"
  /\ hist.n > 0
  /\ hist.from > 0
  /\ searchInput = <<" ">>

\* C2: a search with a term of exactly one character changes neither the
\* match list, nor the current index, nor the overlay's markers, nor the
\* result counter and buttons.
C2_OneCharNoOp ==
  [][ (HandleSearch /\ Len(Trim(searchInput)) = 1) =>
        UNCHANGED <<searchMatches, currentSearchIndex, pages, searchResults,
                    searchPrevDisabled, searchNextDisabled>> ]_vars

\* A one-character search has run on a state with matches and a current
\* match beyond the first.
C2_Witness ==
  /\ hist.op = "searchShort"
  /\ hist.n > 0
  /\ hist.from > 0
  /\ AllMarks(pages) # {}

\* "contains the term case-insensitively"
ContainsCI(text, term) == Includes(ToLowerCase(text), ToLowerCase(term))

\* The first stretch of text that equals the term case-insensitively.
FirstOccurrence(text, term) ==
  LET hits == { i \in 0..Len(text) :
                  ToLowerCase(Substring(text, i, i + Len(term))) = ToLowerCase(term) }
  IN IF hits = {} THEN <<>>
     ELSE LET first == CHOOSE i \in hits : \A j \in hits : i <= j
          IN Substring(text, first, first + Len(term))

RECURSIVE ExpectedMatches(_, _, _, _)
ExpectedMatches(pgs, p, i, term) ==
  IF p > Len(pgs) THEN <<>>
  ELSE IF i > Len(pgs[p].spans) THEN ExpectedMatches(pgs, p + 1, 1, term)
  ELSE (IF ContainsCI(TextContent(pgs[p].spans[i]), term)
          THEN << [ pageIndex |-> p, spanIndex |-> i - 1,
                    text |-> FirstOccurrence(TextContent(pgs[p].spans[i]), term) ] >>
          ELSE <<>>)
         \o ExpectedMatches(pgs, p, i + 1, term)

\* C3: on a loaded document a search for a term of two or more characters
\* yields one match per overlay node containing the term case-insensitively,
\* the match being the node's first occurrence, in page then node order, the
\* k-th match carried by the marker tagged k-1 in that node.
C3_OneMatchPerNode ==
  (hist.op = "search" /\ hist.loaded) =>
    /\ searchMatches = ExpectedMatches(pages, 1, 1, hist.term)
    /\ \A k \in 1..Len(searchMatches) :
         \E pos \in AllMarks(pages) :
           /\ MarksOf(pages, k - 1) = {pos}
           /\ pos[1] = searchMatches[k].pageIndex
           /\ pos[2] = searchMatches[k].spanIndex + 1
           /\ ChildAt(pages, pos).data = searchMatches[k].text
    /\ Cardinality(AllMarks(pages)) = Len(searchMatches)

\* C4: right after a search with a match the current index is 0 and the
\* marker of match 0, and only it, is 'current'; after a search without a
\* match the index is -1 and no marker is 'current'.
C4_FirstMatchCurrent ==
  hist.op = "search" =>
    IF searchMatches # <<>>
      THEN /\ currentSearchIndex = 0
           /\ Cardinality(MarksOf(pages, 0)) = 1
           /\ CurrentMarks(pages) = MarksOf(pages, 0)
      ELSE /\ currentSearchIndex = -1
           /\ CurrentMarks(pages) = {}

\* A search found several matches while an earlier search's current match
\* was beyond the first.
C4_Witness ==
  /\ hist.op = "search"
  /\ Len(searchMatches) >= 2
  /\ hist.from > 0

\* C5: nextMatch sets the index to (index+1) mod N, previousMatch to N-1 from
\* 0 and to index-1 otherwise; previousMatch undoes nextMatch; N nextMatch
\* calls in a row return the index to where it started.
C5_CyclicNavigation ==
  LET n == Len(searchMatches)
  IN /\ hist.op = "next" => currentSearchIndex = (hist.from + 1) % n
     /\ hist.op = "prev" =>
          currentSearchIndex = IF hist.from = 0 THEN n - 1 ELSE hist.from - 1
     /\ (hist.op = "prev" /\ hist.prevOp = "next") => currentSearchIndex = hist.prevFrom
     /\ (hist.op = "next" /\ hist.runLen = n) => currentSearchIndex = hist.runStart

\* N >= 3 nextMatch calls in a row have run, starting from a match other than
\* the first.
C5_Witness ==
  /\ hist.op = "next"
  /\ Len(searchMatches) >= 3
  /\ hist.runLen = Len(searchMatches)
  /\ hist.runStart > 0

\* C6: clear() leaves every overlay node with exactly the text it was built
\* with and no markup, the match list empty and the index at -1; and the
\* term "orl" finds in each node "World" exactly one match, "orl".
C6_ClearRestores ==
  /\ hist.op = "clear" =>
       /\ pages = BuiltLayers
       /\ AllMarks(pages) = {}
       /\ searchMatches = <<>>
       /\ currentSearchIndex = -1
  /\ (hist.op = "search" /\ hist.loaded /\ hist.term = <<"o", "r", "l">>) =>
       /\ \A k \in 1..Len(searchMatches) : searchMatches[k].text = <<"o", "r", "l">>
       /\ Len(searchMatches) =
            Cardinality({ pos \in { <<p, i>> : p \in 1..Len(pages), i \in 1..4 } :
                            /\ pos[2] <= Len(pages[pos[1]].spans)
                            /\ TextContent(pages[pos[1]].spans[pos[2]]) = World })

\* clear() has run on a state with matches, a current match beyond the first
\* and a node "World" in the overlay.
C6_Witness ==
  /\ hist.op = "clear"
  /\ hist.n > 0
  /\ hist.from > 0
  /\ \E p \in 1..Len(pages) : \E i \in 1..Len(pages[p].spans) :
       TextContent(pages[p].spans[i]) = World

(***************************************************************************)
(* Selection tracker: PDFViewer's selectionchange / mouseup / contextmenu /*)
(* dragstart handlers and the context-menu actions.  window.getSelection() *)
(* is the variable selection: its string and whether it has a range that   *)
(* is not collapsed.  The 50 ms timers carry no arguments that matter      *)
(* here, so the pending ones of each kind are counted.  lastSelectedText   *)
(* starts as null, which is written <<>>: the handlers never store an      *)
(* empty string, and null and '' are both falsy where the field is read.   *)
(***************************************************************************)
Selections ==
  { NoSelection,
    [text |-> <<>>, ranged |-> TRUE],
    [text |-> <<" ">>, ranged |-> TRUE],
    [text |-> <<"a", "b">>, ranged |-> TRUE],
    [text |-> <<" ", "c", "d">>, ranged |-> TRUE] }

MenuActions == {"explain", "chat", "quiz", "flashcards", "read-aloud", "none"}

\* selection.toString().trim()
GetSelectedText(sel) == Trim(sel.text)

\* Mutant: the recomputation stores whatever it read, empty or not.
SelectionRecomputeOverwrite(selectedText, st) ==
  IF Len(selectedText) > 0
    THEN [last |-> selectedText, count |-> Len(selectedText), shown |-> TRUE, menu |-> st.menu]
    ELSE [last |-> selectedText, count |-> 0, shown |-> FALSE, menu |-> FALSE]

\* Mutant: the recomputation does nothing for an empty selection.
SelectionRecomputeNoHide(selectedText, st) ==
  IF Len(selectedText) > 0
    THEN [last |-> selectedText, count |-> Len(selectedText), shown |-> TRUE, menu |-> st.menu]
    ELSE st

\* The body of the timer callback of handleSelectionChange, on the fields
\* it reads and writes.
SelectionRecompute(selectedText, st) ==
  IF Len(selectedText) > 0
    THEN [last |-> selectedText, count |-> Len(selectedText), shown |-> TRUE, menu |-> st.menu]
    ELSE [last |-> st.last, count |-> 0, shown |-> FALSE, menu |-> FALSE]

\* text.length > limit ? text.substring(0, limit) + '...' : text
Truncate(text, limit) ==
  IF Len(text) > limit THEN Substring(text, 0, limit) \o <<".", ".", ".">> ELSE text

\* ChatManager.updateWithSelectedText: the new value of the chat input.
ExplainValue(selectedText) ==
  <<"E", "x", "p", "l", "a", "i", "n", ":", " ", "\"">>
    \o Truncate(selectedText, 100) \o <<"\"">>

\* chatWithText: the new value of the chat input.
TellValue(truncatedText) ==
  <<"T", "e", "l", "l", " ", "m", "e", " ", "a", "b", "o", "u", "t", ":", " ", "\"">>
    \o truncatedText \o <<"\"">>

\* A variant of handleChatInputChange that also keeps the button disabled
\* while a chat request is pending.
SendDisabledWhilePending(value) ==
  \/ \E k \in 1..Len(apiCalls) : apiCalls[k].origin = "chat"
  \/ ~(Len(Trim(value)) > 0)

\* ChatManager.handleChatInputChange: sendBtn.disabled for an input value.
SendDisabled(value) == ~(Len(Trim(value)) > 0)

Saw(kind, text) == [selHist EXCEPT !.op = kind, !.seen = text]

\* The selection changes; the browser dispatches selectionchange and
\* handleSelectionChange arms one more timer, cancelling none.
SelectionChange(sel) ==
  /\ selTimers < MaxTimers
  /\ sel # selection
  /\ selection' = sel
  /\ selTimers' = selTimers + 1
  /\ selHist' = [selHist EXCEPT !.op = "change",
                                !.burst = IF selTimers = 0 THEN 1 ELSE Min(@ + 1, MaxTimers)]
  /\ UNCHANGED <<mouseTimers, lastSelectedText, selectionCount, selectionInfoShown,
                 contextMenuShown, chatManager, chatInput, sendBtnDisabled>>
  /\ UNCHANGED <<buildVars, extVars, viewerVars, pages, searchVars>>

\* One timer of handleSelectionChange fires.
SelectionTimerFire ==
  /\ selTimers > 0
  /\ LET selectedText == GetSelectedText(selection)
         st == SelectionRecompute(selectedText,
                 [last |-> lastSelectedText, count |-> selectionCount,
                  shown |-> selectionInfoShown, menu |-> contextMenuShown])
     IN /\ lastSelectedText' = st.last
        /\ selectionCount' = st.count
        /\ selectionInfoShown' = st.shown
        /\ contextMenuShown' = st.menu
        /\ selHist' = IF Len(selectedText) > 0
                        THEN Saw("recompute", selectedText)
                        ELSE [selHist EXCEPT !.op = "recomputeEmpty"]
  /\ selTimers' = selTimers - 1
  /\ UNCHANGED <<selection, mouseTimers, chatManager, chatInput, sendBtnDisabled>>
  /\ UNCHANGED <<buildVars, extVars, viewerVars, pages, searchVars>>

\* handleMouseUp: other buttons and releases inside the side panel return
\* before the timer is armed.
MouseUp(button, inSidePanel) ==
  /\ mouseTimers < MaxTimers
  /\ mouseTimers' = IF button = 0 /\ ~inSidePanel THEN mouseTimers + 1 ELSE mouseTimers
  /\ selHist' = [selHist EXCEPT !.op = "mouseup"]
  /\ UNCHANGED <<selection, selTimers, lastSelectedText, selectionCount,
                 selectionInfoShown, contextMenuShown, chatManager, chatInput,
                 sendBtnDisabled>>
  /\ UNCHANGED <<buildVars, extVars, viewerVars, pages, searchVars>>

\* One timer of handleMouseUp fires.
MouseUpTimerFire ==
  /\ mouseTimers > 0
  /\ mouseTimers' = mouseTimers - 1
  /\ LET selectedText == GetSelectedText(selection)
     IN IF Len(selectedText) > 0 /\ selection.ranged
          THEN /\ lastSelectedText' = selectedText
               /\ contextMenuShown' = TRUE
               /\ selHist' = Saw("mouseupStore", selectedText)
          ELSE /\ contextMenuShown' = FALSE
               /\ selHist' = [selHist EXCEPT !.op = "mouseupHide"]
               /\ UNCHANGED lastSelectedText
  /\ UNCHANGED <<selection, selTimers, selectionCount, selectionInfoShown,
                 chatManager, chatInput, sendBtnDisabled>>
  /\ UNCHANGED <<buildVars, extVars, viewerVars, pages, searchVars>>

\* handleRightClick
RightClick(inSidePanel) ==
  /\ LET selectedText == GetSelectedText(selection)
     IN IF Len(selectedText) > 0 /\ ~inSidePanel
          THEN /\ lastSelectedText' = selectedText
               /\ contextMenuShown' = TRUE
               /\ selHist' = Saw("rightClick", selectedText)
          ELSE /\ selHist' = [selHist EXCEPT !.op = "rightClickIgnored"]
               /\ UNCHANGED <<lastSelectedText, contextMenuShown>>
  /\ UNCHANGED <<selection, selTimers, mouseTimers, selectionCount,
                 selectionInfoShown, chatManager, chatInput, sendBtnDisabled>>
  /\ UNCHANGED <<buildVars, extVars, viewerVars, pages, searchVars>>

\* handleDragStart
DragStart ==
  /\ LET selectedText == GetSelectedText(selection)
     IN IF Len(selectedText) > 0
          THEN /\ lastSelectedText' = selectedText
               /\ selHist' = Saw("drag", selectedText)
          ELSE /\ selHist' = [selHist EXCEPT !.op = "dragIgnored"]
               /\ UNCHANGED lastSelectedText
  /\ UNCHANGED <<selection, selTimers, mouseTimers, selectionCount,
                 selectionInfoShown, contextMenuShown, chatManager, chatInput,
                 sendBtnDisabled>>
  /\ UNCHANGED <<buildVars, extVars, viewerVars, pages, searchVars>>

\* handleDocumentClick for a click outside the context menu, and the
\* Escape key listener: both hide the menu.
HideMenu ==
  /\ contextMenuShown
  /\ contextMenuShown' = FALSE
  /\ selHist' = [selHist EXCEPT !.op = "hideMenu"]
  /\ UNCHANGED <<selection, selTimers, mouseTimers, lastSelectedText, selectionCount,
                 selectionInfoShown, chatManager, chatInput, sendBtnDisabled>>
  /\ UNCHANGED <<buildVars, extVars, viewerVars, pages, searchVars>>

\* handleContextMenuClick: "none" is a click on the menu outside every
\* item.  explainText and chatWithText store the text and fill the chat
\* input; the other actions leave the tracker's fields alone.
ContextMenuClick(action) ==
  /\ contextMenuShown
  /\ LET selectedText == GetSelectedText(selection)
         stores == action \in {"explain", "chat"} /\ Len(selectedText) > 0 /\ chatManager
         value == IF action = "explain"
                    THEN ExplainValue(Truncate(selectedText, 200))
                    ELSE TellValue(Truncate(selectedText, 200))
     IN /\ contextMenuShown' = (action = "none")
        /\ IF stores
             THEN /\ lastSelectedText' = selectedText
                  /\ chatInput' = value
                  /\ sendBtnDisabled' = SendDisabled(value)
                  /\ selHist' = Saw("menuStore", selectedText)
             ELSE /\ selHist' = [selHist EXCEPT !.op = "menu"]
                  /\ UNCHANGED <<lastSelectedText, chatInput, sendBtnDisabled>>
  /\ UNCHANGED <<selection, selTimers, mouseTimers, selectionCount,
                 selectionInfoShown, chatManager>>
  /\ UNCHANGED <<buildVars, extVars, viewerVars, pages, searchVars>>

\* The viewer after construction, no document involved.  The selection
\* info element's initial display comes from the page markup; window.
\* chatManager may or may not have been created.
SelectInit ==
  /\ ExtIdle
  /\ BuildIdle
  /\ file = <<>>
  /\ ViewerIdle
  /\ SearchIdle
  /\ selection = NoSelection
  /\ selTimers = 0
  /\ mouseTimers = 0
  /\ lastSelectedText = <<>>
  /\ selectionCount = 0
  /\ selectionInfoShown \in BOOLEAN
  /\ contextMenuShown = FALSE
  /\ chatManager \in BOOLEAN
  /\ chatInput = <<>>
  /\ sendBtnDisabled = TRUE
  /\ selHist = NoSelHist

SelectNext ==
  \/ \E sel \in Selections : SelectionChange(sel)
  \/ SelectionTimerFire
  \/ \E button \in {0, 2}, inSidePanel \in BOOLEAN : MouseUp(button, inSidePanel)
  \/ MouseUpTimerFire
  \/ \E inSidePanel \in BOOLEAN : RightClick(inSidePanel)
  \/ DragStart
  \/ HideMenu
  \/ \E action \in MenuActions : ContextMenuClick(action)

SpecSelect == SelectInit /\ [][SelectNext]_vars

(***************************************************************************)
(* Properties of the selection tracker.                                    *)
(***************************************************************************)
\* C7: lastSelectedText is the most recent non-empty selection text a
\* handler saw; a recomputation that sees an empty selection leaves it
\* unchanged; it changes only in a step that sees a non-empty selection,
\* and then to that selection's text.
C7_LastSelectionRetained ==
  /\ [](lastSelectedText = selHist.seen)
  /\ [][(SelectionTimerFire /\ GetSelectedText(selection) = <<>>)
          => lastSelectedText' = lastSelectedText]_vars
  /\ [][lastSelectedText' # lastSelectedText
          => /\ GetSelectedText(selection) # <<>>
             /\ lastSelectedText' = GetSelectedText(selection)]_vars

\* A recomputation has just seen an empty selection while a non-empty text
\* is retained.
C7_Witness ==
  /\ selHist.op = "recomputeEmpty"
  /\ lastSelectedText # <<>>
  /\ GetSelectedText(selection) = <<>>

\* C8: when no settle timer is pending after a burst of selection changes,
\* the selection info is shown exactly if the current selection is
\* non-empty, and the count is the current selection's length.
C8_IndicatorReflectsCurrent ==
  (selTimers = 0 /\ selHist.burst >= 1) =>
    /\ selectionInfoShown <=> (GetSelectedText(selection) # <<>>)
    /\ selectionCount = Len(GetSelectedText(selection))

\* A burst of two changes has settled on an empty selection, a non-empty
\* text being retained from before.
C8_Witness ==
  /\ selTimers = 0
  /\ selHist.burst >= 2
  /\ lastSelectedText # <<>>
  /\ GetSelectedText(selection) = <<>>
  /\ ~selectionInfoShown
  /\ selectionCount = 0

(***************************************************************************)
(* Properties of the overlay builder.                                      *)
(***************************************************************************)
NodeTexts(spans) == [i \in 1..Len(spans) |-> TextContent(spans[i])]

ItemTexts(items) == [i \in 1..Len(items) |-> items[i].str]

NonEmpty(item) == item.str # <<>>

NonBlank(item) == \E i \in 1..Len(item.str) : item.str[i] # " "

\* textItem.transform is there (not undefined).
HasTransform(item) == item.transform # <<>>

WellFormed(item) == NonBlank(item) /\ HasTransform(item)

\* C9 as stated: the overlay node texts are the texts of the non-empty items,
\* in order, whitespace-only items included (items with a transform).
C9_OneNodePerNonEmptyItem ==
  ( /\ builds >= 1
    /\ textContent.hasItems
    /\ \A i \in 1..Len(textContent.items) : HasTransform(textContent.items[i]) ) =>
    NodeTexts(container) = ItemTexts(SelectSeq(textContent.items, NonEmpty))

\* C9 amended: one node per item whose text is neither empty nor
\* whitespace-only and whose transform is present, in the items' order; each
\* node holds the item's text as its only child.
C9_OneNodePerNonBlankItem ==
  (builds >= 1 /\ textContent.hasItems) =>
    /\ NodeTexts(container) = ItemTexts(SelectSeq(textContent.items, WellFormed))
    /\ \A i \in 1..Len(container) : Len(container[i].children) = 1

\* A layer built from a whitespace-only item followed by a lettered one.
C9_Witness ==
  /\ builds >= 1
  /\ textContent.hasItems
  /\ Len(textContent.items) = 2
  /\ textContent.items[1].str = <<" ">>
  /\ NonBlank(textContent.items[2]) /\ HasTransform(textContent.items[2])
  /\ Len(container) = 1

\* The scenario of C10: items "Hello" and "World" with transform
\* [12,0,0,12,50,100], identity viewport transform (scale 1).
HelloWorldScenario ==
  /\ builds >= 1
  /\ textContent.hasItems
  /\ textContent.items = <<ItHello, ItWorld>>
  /\ viewport.transform = <<1, 0, 0, 1, 0, 0>>

PlacedAt(span, size, x, y) ==
  span.fontSize = size /\ span.left = x /\ span.top = y /\ ~span.rotated

\* C10 as stated: the scenario produces exactly one overlay node, of font
\* size 12 at (50, 100), not rotated.
C10_ExactlyOneNode ==
  HelloWorldScenario =>
    /\ Len(container) = 1
    /\ \A i \in 1..Len(container) : PlacedAt(container[i], 12, 50, 100)

\* C10 amended: the scenario produces exactly two overlay nodes, "Hello" and
\* "World", each of font size 12 at (50, 100), not rotated.
C10_OneNodePerItem ==
  HelloWorldScenario =>
    /\ NodeTexts(container) = <<Hello, World>>
    /\ \A i \in 1..Len(container) : PlacedAt(container[i], 12, 50, 100)

C10_Witness == HelloWorldScenario /\ Len(container) = 2

\* The items createTextLayer appends a node for, in order.
Placed(items) == SelectSeq(items, WellFormed)

\* textItem.transform is an array of six numbers.
Complete(item) == Len(item.transform) = 6

Composed(item) == UtilTransform(viewport.transform, item.transform)

\* C11 as stated: the font size of a node is >= 0 and its square is
\* b^2 + d^2 of the composed matrix [a, b, c, d, e, f].
C11_FontSizeNormBD ==
  (builds >= 1 /\ textContent.hasItems) =>
    LET placed == Placed(textContent.items)
    IN /\ Len(container) = Len(placed)
       /\ \A i \in 1..Len(placed) :
            Complete(placed[i]) =>
              LET t == Composed(placed[i])
              IN /\ container[i].fontSize >= 0
                 /\ container[i].fontSize * container[i].fontSize = t[2] * t[2] + t[4] * t[4]

\* C11 amended: the font size of a node is >= 0 and its square is
\* c^2 + d^2 of the composed matrix [a, b, c, d, e, f].
C11_FontSizeNormCD ==
  (builds >= 1 /\ textContent.hasItems) =>
    LET placed == Placed(textContent.items)
    IN /\ Len(container) = Len(placed)
       /\ \A i \in 1..Len(placed) :
            Complete(placed[i]) =>
              LET t == Composed(placed[i])
              IN /\ container[i].fontSize >= 0
                 /\ container[i].fontSize * container[i].fontSize = t[3] * t[3] + t[4] * t[4]

\* A node was built for an item whose composed matrix has b^2 + d^2
\* different from c^2 + d^2.
C11_Witness ==
  /\ builds >= 1
  /\ textContent.hasItems
  /\ Len(container) = Len(Placed(textContent.items))
  /\ \E i \in 1..Len(container) :
       /\ Complete(Placed(textContent.items)[i])
       /\ LET t == Composed(Placed(textContent.items)[i])
          IN /\ t[2] * t[2] # t[3] * t[3]
             /\ container[i].fontSize * container[i].fontSize = t[3] * t[3] + t[4] * t[4]

SpanHasMark(span) == \E j \in 1..Len(span.children) : span.children[j].kind = "mark"

\* C12: a build from an item list leaves nothing of the container's earlier
\* content (no marker, one text child per node), and a second build of the
\* same list with the same viewport gives the same node texts in the same
\* order as the first.
C12_RebuildIdempotent ==
  (builds >= 1 /\ textContent.hasItems) =>
    /\ \A i \in 1..Len(container) :
         ~SpanHasMark(container[i]) /\ Len(container[i].children) = 1
    /\ Len(container) = Len(Placed(textContent.items))
    /\ builds >= 2 => NodeTexts(container) = NodeTexts(layerHist[builds])

\* Two builds of a list with two nodes, on a container that held a search
\* marker before the first.
C12_Witness ==
  /\ builds = 2
  /\ textContent.hasItems
  /\ \E i \in 1..Len(layerHist[1]) : SpanHasMark(layerHist[1][i])
  /\ Len(container) = 2
  /\ NodeTexts(container) = NodeTexts(layerHist[2])

\* C13 as stated: an item whose transform is missing or malformed gets no
\* node, and every other item with text gets its node, in order.
C13_BadTransformSkipped ==
  (builds >= 1 /\ textContent.hasItems) =>
    NodeTexts(container) =
      ItemTexts(SelectSeq(textContent.items,
                          LAMBDA item : NonBlank(item) /\ Complete(item)))

(***************************************************************************)
(* Render passes: loadPDF / renderAllPages, handleZoomChange /             *)
(* rerenderAllPages, renderPage and renderTextLayer, with the points at    *)
(* which an await lets other handlers run.  `pages` holds the .textLayer   *)
(* elements of the attached page containers and `sheets` the rest of each  *)
(* container: its page number (the ids page-N, text-layer-N), the scale    *)
(* its canvas was drawn with (0: blank) and what built its text layer.     *)
(* There is one pass record per kind, "all" for renderAllPages and "re"    *)
(* for rerenderAllPages: a new pass of a kind starts only when the earlier *)
(* one of that kind has ended, passes of the two kinds overlap freely.  A  *)
(* pass is [kind, pos, phase, target, page, vscale, seen]: target is the   *)
(* position of the container it renders into, 0 once that container has    *)
(* been removed from the viewer; seen lists the renderPage calls it made,  *)
(* as long as it runs.  The zoom values are numeric scales (no fit-width / *)
(* fit-page).                                                              *)
(***************************************************************************)
ZoomValues == {1, 2}

\* The documents a user opens here: one of a single page, one of two.
RenderDocuments == { <<PageHello>>, <<PageHello, PageCats>> }

\* What the library does during one renderTextLayer call: getTextContent
\* resolves, rejects once, or rejects every time; TextLayer.render (if there)
\* resolves or throws; the item list is sound or starts with a null entry,
\* on which createTextLayer throws right after emptying the container.
TextLayerEnvs ==
  { [content |-> "ok", builtin |-> "ok", items |-> "ok"],
    [content |-> "ok", builtin |-> "throws", items |-> "ok"],
    [content |-> "ok", builtin |-> "throws", items |-> "null"],
    [content |-> "ok", builtin |-> "ok", items |-> "null"],
    [content |-> "failsOnce", builtin |-> "ok", items |-> "ok"],
    [content |-> "fails", builtin |-> "ok", items |-> "ok"] }

\* The library at its best; also stands for any environment when
\* renderTextLayer is not reached.
SoundEnv == [content |-> "ok", builtin |-> "ok", items |-> "ok"]

BlankSheet(k) == [id |-> k, canvas |-> 0, by |-> "none"]

\* Mutant: the last-resort attempt is not guarded, its exception escapes.
RenderTextLayerUnguarded(api, env, layer, by, page, vp) ==
  LET built == CreateTextLayer(GetTextContent(page), layer.spans, vp)
  IN IF env.content = "fails"
       THEN [spans |-> layer.spans, by |-> by, threw |-> TRUE]
     ELSE IF env.items = "null"
       THEN [spans |-> <<>>, by |-> "none", threw |-> TRUE]
     ELSE IF api /\ env.content = "ok" /\ env.builtin = "ok"
       THEN [spans |-> built, by |-> "builtin", threw |-> FALSE]
     ELSE [spans |-> built, by |-> "manual", threw |-> FALSE]

\* renderTextLayer(page, textLayerDiv, viewport): the div's new children,
\* what built them, and whether an exception left the function.  The
\* built-in primitive's nodes are taken to be those of the manual
\* construction.
RenderTextLayer(api, env, layer, by, page, vp) ==
  LET built == CreateTextLayer(GetTextContent(page), layer.spans, vp)
  IN IF env.content = "fails"
       \* both getTextContent calls reject: the div is left as it was
       THEN [spans |-> layer.spans, by |-> by, threw |-> FALSE]
     ELSE IF env.items = "null"
       \* whichever path is taken ends in createTextLayer throwing
       THEN [spans |-> <<>>, by |-> "none", threw |-> FALSE]
     ELSE IF api /\ env.content = "ok" /\ env.builtin = "ok"
       THEN [spans |-> built, by |-> "builtin", threw |-> FALSE]
     ELSE [spans |-> built, by |-> "manual", threw |-> FALSE]

\* Mutant: renderPage starts whatever the flag says.
GuardBlocksNever(flag) == FALSE

\* if (this.rendering) return;
GuardBlocks(flag) == flag

\* Mutant: an exception of renderPage reaches the loop and ends the pass.
AfterPageRethrow(outcome) == IF outcome = "failed" THEN "idle" ELSE "between"

\* renderPage catches and logs: its promise always resolves and the loop of
\* the pass goes on.
AfterPage(outcome) == "between"

\* document.querySelector('#page-k canvas'): the first container of page k,
\* 0 for null.
FirstSheet(shs, k) ==
  LET at == {j \in 1..Len(shs) : shs[j].id = k}
  IN IF at = {} THEN 0 ELSE CHOOSE j \in at : \A l \in at : j <= l

\* The loop of a pass from page k on, up to the first await: renderAllPages
\* appends a container for page k, rerenderAllPages goes to the first page
\* from k on that has a canvas; then renderPage is called and either returns
\* at the guard or sets the flag and asks for the page.
Enter(p, k, doc, shs, busy) ==
  LET withCanvas == {j \in k..Len(doc) : FirstSheet(shs, j) # 0}
      k2 == IF p.kind = "all" THEN (IF k <= Len(doc) THEN k ELSE 0)
            ELSE IF withCanvas = {} THEN 0
            ELSE CHOOSE j \in withCanvas : \A l \in withCanvas : j <= l
      target == IF p.kind = "all" THEN Len(shs) + 1 ELSE FirstSheet(shs, k2)
  IN IF k2 = 0
       THEN [ pass |-> [p EXCEPT !.phase = "idle", !.pos = 0, !.target = 0,
                                 !.page = NoPage, !.vscale = 0, !.seen = <<>>],
              append |-> 0, busy |-> busy ]
     ELSE IF GuardBlocks(busy)
       THEN [ pass |-> [p EXCEPT !.phase = "between", !.pos = k2, !.target = target,
                                 !.page = NoPage, !.vscale = 0,
                                 !.seen = Append(@, [page |-> k2, outcome |-> "skipped"])],
              append |-> IF p.kind = "all" THEN k2 ELSE 0, busy |-> busy ]
     ELSE [ pass |-> [p EXCEPT !.phase = "fetch", !.pos = k2, !.target = target,
                               !.page = doc[k2], !.vscale = 0],
            append |-> IF p.kind = "all" THEN k2 ELSE 0, busy |-> TRUE ]

Detached(ps) == [k \in PassKinds |-> [ps[k] EXCEPT !.target = 0]]

\* The user opens a file and getDocument resolves: loadPDF sets the
\* document, renderAllPages empties the viewer and starts its loop.
LoadDocument(doc) ==
  /\ passes["all"].phase = "idle"
  /\ LET r == Enter(NewPass("all"), 1, doc, <<>>, rendering)
     IN /\ passes' = [Detached(passes) EXCEPT !["all"] = r.pass]
        /\ sheets' = IF r.append = 0 THEN <<>> ELSE <<BlankSheet(r.append)>>
        /\ pages' = IF r.append = 0 THEN <<>> ELSE <<EmptyLayer>>
        /\ rendering' = r.busy
  /\ file' = doc
  /\ pdfDoc' = TRUE
  /\ currentPage' = 1
  /\ UNCHANGED <<scale, renderPos, textLayerApi>>
  /\ UNCHANGED <<buildVars, searchVars, selVars, restVars>>

\* handleZoomChange: the scale is set and rerenderAllPages starts its loop
\* (it returns at once without a document).
ZoomChange(value) ==
  /\ value # scale
  /\ passes["re"].phase = "idle"
  /\ scale' = value
  /\ IF ~pdfDoc
       THEN UNCHANGED <<passes, sheets, pages, rendering>>
       ELSE LET r == Enter(NewPass("re"), 1, file, sheets, rendering)
            IN /\ passes' = [passes EXCEPT !["re"] = r.pass]
               /\ rendering' = r.busy
               /\ UNCHANGED <<sheets, pages>>
  /\ UNCHANGED <<file, pdfDoc, currentPage, renderPos, textLayerApi>>
  /\ UNCHANGED <<buildVars, searchVars, selVars, restVars>>

\* The loop of pass i resumes after its renderPage call has resolved.
PassContinue(i) ==
  /\ passes[i].phase = "between"
  /\ LET r == Enter(passes[i], passes[i].pos + 1, file, sheets, rendering)
     IN /\ passes' = [passes EXCEPT ![i] = r.pass]
        /\ sheets' = IF r.append = 0 THEN sheets ELSE Append(sheets, BlankSheet(r.append))
        /\ pages' = IF r.append = 0 THEN pages ELSE Append(pages, EmptyLayer)
        /\ rendering' = r.busy
  /\ UNCHANGED <<file, pdfDoc, currentPage, scale, renderPos, textLayerApi>>
  /\ UNCHANGED <<buildVars, searchVars, selVars, restVars>>

\* Mutant: the flag is cleared at the end of the try block, not in finally.
FinishClearsOnSuccess(i, outcome) ==
  /\ passes' = [passes EXCEPT ![i] =
                  [@ EXCEPT !.phase = AfterPage(outcome), !.page = NoPage, !.vscale = 0,
                            !.seen = Append(@, [page |-> passes[i].pos, outcome |-> outcome])]]
  /\ rendering' = (outcome = "failed")

\* The end of a renderPage call that had set the flag: finally clears it.
Finish(i, outcome) ==
  /\ passes' = [passes EXCEPT ![i] =
                  [@ EXCEPT !.phase = AfterPage(outcome), !.page = NoPage, !.vscale = 0,
                            !.seen = Append(@, [page |-> passes[i].pos, outcome |-> outcome])]]
  /\ rendering' = FALSE

\* getPage of pass i settles: on success the viewport is computed from the
\* scale of that moment and page.render is started.
PageFetched(i, ok) ==
  /\ passes[i].phase = "fetch"
  /\ IF ok
       THEN /\ passes' = [passes EXCEPT ![i] = [@ EXCEPT !.phase = "draw", !.vscale = scale]]
            /\ UNCHANGED rendering
       ELSE /\ Finish(i, "failed")
  /\ UNCHANGED <<file, pdfDoc, currentPage, scale, renderPos, pages, sheets, textLayerApi>>
  /\ UNCHANGED <<buildVars, searchVars, selVars, restVars>>

\* page.render of pass i settles; after a success renderTextLayer runs to
\* its end.  A container no longer in the viewer is drawn out of sight.
PageDrawn(i, ok, env) ==
  /\ passes[i].phase = "draw"
  /\ LET p == passes[i]
         t == p.target
         vp == GetViewport(p.page, p.vscale)
         layer == RenderTextLayer(textLayerApi, env,
                                  IF t = 0 THEN EmptyLayer ELSE pages[t],
                                  IF t = 0 THEN "none" ELSE sheets[t].by, p.page, vp)
     IN IF ok
          THEN /\ Finish(i, IF layer.threw THEN "failed" ELSE "ok")
               /\ sheets' = IF t = 0 THEN sheets
                            ELSE [sheets EXCEPT ![t] = [@ EXCEPT !.canvas = p.vscale,
                                                                 !.by = layer.by]]
               /\ pages' = IF t = 0 THEN pages
                           ELSE [pages EXCEPT ![t] = [@ EXCEPT !.spans = layer.spans]]
          ELSE /\ Finish(i, "failed")
               /\ sheets' = IF t = 0 THEN sheets
                            ELSE [sheets EXCEPT ![t] = [@ EXCEPT !.canvas = 0]]
               /\ UNCHANGED pages
  /\ UNCHANGED <<file, pdfDoc, currentPage, scale, renderPos, textLayerApi>>
  /\ UNCHANGED <<buildVars, searchVars, selVars, restVars>>

RenderInit ==
  /\ BuildIdle
  /\ file = <<>>
  /\ ViewerIdle
  /\ SearchIdle
  /\ SelectIdle
  /\ RestIdle
  /\ passes = NoPasses
  /\ sheets = <<>>
  /\ textLayerApi \in BOOLEAN

RenderNext ==
  \/ \E doc \in RenderDocuments : LoadDocument(doc)
  \/ \E value \in ZoomValues : ZoomChange(value)
  \/ \E i \in PassKinds : PassContinue(i)
  \/ \E i \in PassKinds, ok \in BOOLEAN : PageFetched(i, ok)
  \/ \E i \in PassKinds, env \in TextLayerEnvs : PageDrawn(i, TRUE, env)
  \/ \E i \in PassKinds : PageDrawn(i, FALSE, SoundEnv)

SpecRender == RenderInit /\ [][RenderNext]_vars

(***************************************************************************)
(* Properties of the render passes.                                        *)
(***************************************************************************)
LastSeen(p) == p.seen[Len(p.seen)]

\* The text layer has to come from the manual construction: the item list
\* is sound and got, and the built-in primitive is absent, has thrown, or
\* was never reached because the first getTextContent rejected.
ManualExpected(env) ==
  /\ env.content # "fails"
  /\ env.items = "ok"
  /\ ~textLayerApi \/ env.builtin = "throws" \/ env.content = "failsOnce"

BuiltinExpected(env) ==
  textLayerApi /\ env.content = "ok" /\ env.items = "ok" /\ env.builtin = "ok"

\* C14: whatever happens in renderTextLayer after the bitmap was drawn, the
\* renderPage call ends without an error for the page and the bitmap stays;
\* the layer is the built-in one only when that primitive is there and
\* succeeds, the manual one when the primitive is absent or has thrown, and
\* when the manual construction throws as well the page has no layer.
C14_TextLayerDegrades ==
  [][\A i \in PassKinds, env \in TextLayerEnvs :
       (passes[i].phase = "draw" /\ passes[i].target # 0 /\ PageDrawn(i, TRUE, env)) =>
         LET t == passes[i].target
         IN /\ LastSeen(passes'[i]) = [page |-> passes[i].pos, outcome |-> "ok"]
            /\ passes'[i].phase = "between"
            /\ sheets'[t].canvas = passes[i].vscale
            /\ BuiltinExpected(env) => sheets'[t].by = "builtin"
            /\ ManualExpected(env) =>
                 /\ sheets'[t].by = "manual"
                 /\ pages'[t].spans =
                      BuildSpans(passes[i].page.items,
                                 GetViewport(passes[i].page, passes[i].vscale))
            /\ env.items = "null" /\ env.content # "fails" =>
                 sheets'[t].by = "none" /\ pages'[t].spans = <<>>]_vars

\* A page whose bitmap is drawn and whose text layer could not be built by
\* any means, its renderPage call having ended without an error.
C14_Witness ==
  \E i \in PassKinds :
    /\ passes[i].phase = "between"
    /\ passes[i].target # 0
    /\ LastSeen(passes[i]).outcome = "ok"
    /\ sheets[passes[i].target].canvas # 0
    /\ sheets[passes[i].target].by = "none"

\* C15: when getPage or render fails for page k of a pass, the flag is
\* released and the pass is not ended; when its loop resumes after the
\* failure with the flag free and a page k+1 in the document, the render of
\* page k+1 is started.
C15_PageFailureContained ==
  /\ [][\A i \in PassKinds :
          (PageFetched(i, FALSE) \/ PageDrawn(i, FALSE, SoundEnv)) =>
            /\ ~rendering'
            /\ passes'[i].phase = "between"
            /\ passes'[i].pos = passes[i].pos
            /\ LastSeen(passes'[i]) = [page |-> passes[i].pos, outcome |-> "failed"]]_vars
  /\ [][\A i \in PassKinds :
          ( /\ passes[i].phase = "between"
            /\ passes[i].kind = "all"
            /\ LastSeen(passes[i]).outcome = "failed"
            /\ passes[i].pos < Len(file)
            /\ ~rendering
            /\ PassContinue(i) ) =>
            /\ passes'[i].phase = "fetch"
            /\ passes'[i].pos = passes[i].pos + 1
            /\ rendering']_vars

\* The load pass failed on page 1 and has rendered page 2 since.
C15_Witness ==
  /\ passes["all"].seen =
       <<[page |-> 1, outcome |-> "failed"], [page |-> 2, outcome |-> "ok"]>>
  /\ passes["all"].target # 0
  /\ sheets[passes["all"].target].canvas # 0
  /\ ~rendering

InProgress == {i \in PassKinds : passes[i].phase \in {"fetch", "draw"}}

Ascending(p) ==
  /\ \A j \in 1..Len(p.seen) : \A l \in 1..Len(p.seen) :
       j < l => p.seen[j].page < p.seen[l].page
  /\ p.phase \in {"fetch", "draw"} =>
       \A j \in 1..Len(p.seen) : p.seen[j].page < p.pos

\* C20: at most one page render is in progress at any time; within a pass
\* the renderPage calls made so far are for ascending page numbers, all of
\* them ended, and the page being rendered comes after them.
C20_OnePageAtATime ==
  /\ Cardinality(InProgress) <= 1
  /\ \A i \in PassKinds : Ascending(passes[i])

\* A second pass has started while a page render of the first is in
\* progress: its own renderPage call has returned at the guard.
C20_Witness ==
  \E i \in PassKinds, j \in PassKinds :
    /\ i # j
    /\ passes[i].phase = "draw"
    /\ passes[j].phase = "between"
    /\ LastSeen(passes[j]).outcome = "skipped"

(***************************************************************************)
(* The upload server (server.js): file validation, the metadata store,     *)
(* the hourly cleanup and the rate limiters.  Time is in hours.            *)
(***************************************************************************)
MaxClock == 26

MaxFiles == 2

MaxParts == 2

MaxUploads == 3

MaxIds == 3

\* The retention the cleanup applies: 24 * 60 * 60 * 1000 ms.
RetentionHours == 24

\* limits.fileSize (50 * 1024 * 1024) in MB and limits.files.
FileSizeLimit == 50

FilesLimit == 5

\* The limits the documentation states for one IP and window.
RequestsPerWindow == 100

UploadsPerWindow == 10

\* The steps by which the model lets time pass.
TickHours == {12, 13}

PdfMime == "application/pdf"

DocMime == "application/msword"

DocxMime == "application/vnd.openxmlformats-officedocument.wordprocessingml.document"

allowedTypes == {PdfMime, DocMime, DocxMime}

allowedExtensions ==
  { <<".", "p", "d", "f">>, <<".", "d", "o", "c">>, <<".", "d", "o", "c", "x">> }

\* path.extname on a file name without directories: from the last dot to
\* the end; empty when there is no dot or the only dot is the first character.
ExtName(name) ==
  LET dots == {i \in 1..Len(name) : name[i] = "."}
      last == CHOOSE i \in dots : \A j \in dots : j <= i
  IN IF dots = {} THEN <<>>
     ELSE IF last = 1 THEN <<>>
     ELSE SubSeq(name, last, Len(name))

\* One file part of a multipart request.
Part(field, name, mime, size) ==
  [fieldname |-> field, originalname |-> name, mimetype |-> mime, size |-> size]

PdfPart == Part("files", <<"a", ".", "p", "d", "f">>, PdfMime, 1)

UpperPart == Part("files", <<"a", ".", "P", "D", "F">>, PdfMime, 1)

DocxPart == Part("files", <<"a", ".", "d", "o", "c", "x">>, DocxMime, 1)

ExePart == Part("files", <<"a", ".", "p", "d", "f", ".", "e", "x", "e">>, PdfMime, 1)

HtmlPart == Part("files", <<"a", ".", "p", "d", "f">>, "text/html", 1)

DotPart == Part("files", <<".", "p", "d", "f">>, PdfMime, 1)

BigPart == Part("files", <<"a", ".", "d", "o", "c">>, DocMime, 51)

StrayPart == Part("file", <<"a", ".", "e", "x", "e">>, "application/x-msdownload", 1)

UploadParts ==
  {PdfPart, UpperPart, DocxPart, ExePart, HtmlPart, DotPart, BigPart, StrayPart}

UploadRequests == SeqsUpTo(UploadParts, MaxParts)

\* fileFilter's test.
FileFilterAccepts(part) ==
  /\ part.mimetype \in allowedTypes
  /\ ToLowerCase(ExtName(part.originalname)) \in allowedExtensions

\* upload.array('files', 5) with the limits of the multer instance: the parts
\* are taken in order; the first refusal aborts the request with that error
\* and the files written so far are removed again.
RECURSIVE MulterScan(_, _, _)
MulterScan(parts, k, accepted) ==
  IF k > Len(parts) THEN [error |-> "none", files |-> accepted]
  ELSE IF k > FilesLimit THEN [error |-> "LIMIT_FILE_COUNT", files |-> <<>>]
  ELSE IF parts[k].fieldname # "files"
    THEN [error |-> "LIMIT_UNEXPECTED_FILE", files |-> <<>>]
  ELSE IF ~FileFilterAccepts(parts[k])
    THEN [error |-> "Invalid file type", files |-> <<>>]
  ELSE IF parts[k].size > FileSizeLimit
    THEN [error |-> "LIMIT_FILE_SIZE", files |-> <<>>]
  ELSE MulterScan(parts, k + 1, Append(accepted, parts[k]))

UploadArray(parts) == MulterScan(parts, 1, <<>>)

\* The error handling middleware's status for an error of the upload.
ErrorStatus(error) ==
  IF error \in {"LIMIT_FILE_SIZE", "LIMIT_FILE_COUNT"} THEN 400
  ELSE IF error = "Invalid file type" THEN 400
  ELSE 500

\* rateLimit's max of the two limiters.
LimiterMax(prod) == IF prod THEN 100 ELSE 10000

UploadLimiterMax(prod) == IF prod THEN 10 ELSE 1000

\* app.use(limiter) and uploadMiddleware: the limiters are installed in
\* production only.
LimiterInstalled(prod) == prod

UploadLimiterInstalled(prod) == prod

Bump(f, ip) == [f EXCEPT ![ip] = @ + 1]

\* The metadata entries the upload handler stores for the accepted files.
RECURSIVE NewEntries(_, _, _)
NewEntries(files, id, now) ==
  IF files = <<>> THEN <<>>
  ELSE << [ id |-> id, originalName |-> Head(files).originalname,
            mimetype |-> Head(files).mimetype, uploadDate |-> now,
            path |-> id ] >>
       \o NewEntries(Tail(files), id + 1, now)

Paths(db) == {db[k].path : k \in 1..Len(db)}

\* Any request that only reads (GET /api/status).
Request(ip) ==
  /\ requestHits[ip] <= RequestsPerWindow
  /\ served[ip] <= RequestsPerWindow
  /\ IF LimiterInstalled(production)
       THEN /\ requestHits' = Bump(requestHits, ip)
            /\ IF requestHits'[ip] > LimiterMax(production)
                 THEN /\ reply' = [route |-> "status", status |-> 429]
                      /\ UNCHANGED served
                 ELSE /\ reply' = [route |-> "status", status |-> 200]
                      /\ served' = Bump(served, ip)
       ELSE /\ reply' = [route |-> "status", status |-> 200]
            /\ served' = Bump(served, ip)
            /\ UNCHANGED requestHits
  /\ UNCHANGED <<production, clock, fileDatabase, disk, nextId, uploadHits, uploadsServed>>
  /\ UNCHANGED <<buildVars, viewerVars, pages, searchVars, selVars, renderVars, chatVars, dropVars>>

\* POST /api/upload.
Upload(ip, parts) ==
  LET limited == LimiterInstalled(production)
                   /\ requestHits[ip] + 1 > LimiterMax(production)
      uploadLimited == UploadLimiterInstalled(production)
                         /\ uploadHits[ip] + 1 > UploadLimiterMax(production)
      got == UploadArray(parts)
  IN
  /\ requestHits[ip] <= RequestsPerWindow
  /\ served[ip] <= RequestsPerWindow
  /\ uploadHits[ip] <= UploadsPerWindow
  /\ uploadsServed[ip] <= UploadsPerWindow
  /\ Len(fileDatabase) + Len(got.files) <= MaxFiles
  /\ nextId + Len(got.files) <= MaxIds + 1
  /\ requestHits' = IF LimiterInstalled(production) THEN Bump(requestHits, ip)
                    ELSE requestHits
  /\ uploadHits' = IF UploadLimiterInstalled(production) /\ ~limited
                     THEN Bump(uploadHits, ip) ELSE uploadHits
  /\ served' = IF limited THEN served ELSE Bump(served, ip)
  /\ uploadsServed' = IF limited \/ uploadLimited THEN uploadsServed
                      ELSE Bump(uploadsServed, ip)
  /\ IF limited \/ uploadLimited
       THEN /\ reply' = [route |-> "upload", status |-> 429]
            /\ UNCHANGED <<fileDatabase, disk, nextId>>
       ELSE IF got.error # "none"
         THEN /\ reply' = [route |-> "upload", status |-> ErrorStatus(got.error)]
              /\ UNCHANGED <<fileDatabase, disk, nextId>>
       ELSE IF got.files = <<>>
         THEN /\ reply' = [route |-> "upload", status |-> 400]
              /\ UNCHANGED <<fileDatabase, disk, nextId>>
       ELSE LET entries == NewEntries(got.files, nextId, clock)
            IN /\ fileDatabase' = fileDatabase \o entries
               /\ disk' = disk \cup Paths(entries)
               /\ nextId' = nextId + Len(entries)
               /\ reply' = [route |-> "upload", status |-> 200]
  /\ UNCHANGED <<production, clock>>
  /\ UNCHANGED <<buildVars, viewerVars, pages, searchVars, selVars, renderVars, chatVars, dropVars>>

Without(db, id) == SelectSeq(db, LAMBDA e : e.id # id)

Ids(db) == {db[k].id : k \in 1..Len(db)}

Entry(db, id) == db[CHOOSE k \in 1..Len(db) : db[k].id = id]

\* DELETE /api/files/:id; unlinkSync fails when the file cannot be removed.
DeleteFile(ip, id, unlinkFails) ==
  /\ requestHits[ip] <= RequestsPerWindow
  /\ served[ip] <= RequestsPerWindow
  /\ requestHits' = IF LimiterInstalled(production) THEN Bump(requestHits, ip)
                    ELSE requestHits
  /\ IF LimiterInstalled(production) /\ requestHits[ip] + 1 > LimiterMax(production)
       THEN /\ reply' = [route |-> "delete", status |-> 429]
            /\ UNCHANGED <<fileDatabase, disk, served>>
       ELSE /\ served' = Bump(served, ip)
            /\ IF id \notin Ids(fileDatabase)
                 THEN /\ reply' = [route |-> "delete", status |-> 404]
                      /\ UNCHANGED <<fileDatabase, disk>>
                 ELSE LET meta == Entry(fileDatabase, id)
                      IN IF meta.path \in disk /\ unlinkFails
                           THEN /\ reply' = [route |-> "delete", status |-> 500]
                                /\ UNCHANGED <<fileDatabase, disk>>
                           ELSE /\ disk' = disk \ {meta.path}
                                /\ fileDatabase' = Without(fileDatabase, id)
                                /\ reply' = [route |-> "delete", status |-> 200]
  /\ UNCHANGED <<production, clock, nextId, uploadHits, uploadsServed>>
  /\ UNCHANGED <<buildVars, viewerVars, pages, searchVars, selVars, renderVars, chatVars, dropVars>>

\* Time passes.
Tick(h) ==
  /\ clock + h <= MaxClock
  /\ clock' = clock + h
  /\ UNCHANGED <<production, fileDatabase, disk, nextId, requestHits, uploadHits,
                 served, uploadsServed, reply>>
  /\ UNCHANGED <<buildVars, viewerVars, pages, searchVars, selVars, renderVars, chatVars, dropVars>>

\* uploadTime < oneDayAgo
IsOld(meta, now) == meta.uploadDate < now - RetentionHours

\* The loop of cleanupOldFiles over the entries in insertion order, from the
\* k-th entry of the store as it was when the loop began; locked are the
\* paths whose unlinkSync throws.  An exception leaves the loop.
RECURSIVE CleanupLoop(_, _, _, _, _, _)
CleanupLoop(entries, k, db, dsk, locked, now) ==
  IF k > Len(entries) THEN [db |-> db, disk |-> dsk]
  ELSE LET meta == entries[k]
       IN IF ~IsOld(meta, now)
            THEN CleanupLoop(entries, k + 1, db, dsk, locked, now)
          ELSE IF meta.path \in dsk /\ meta.path \in locked
            THEN [db |-> db, disk |-> dsk]
          ELSE CleanupLoop(entries, k + 1, Without(db, meta.id),
                           dsk \ {meta.path}, locked, now)

\* cleanupOldFiles, run by the hourly timer.
CleanupOldFiles(locked) ==
  LET out == CleanupLoop(fileDatabase, 1, fileDatabase, disk, locked, clock)
  IN /\ fileDatabase' = out.db
     /\ disk' = out.disk
     /\ reply' = [route |-> "cleanup", status |-> 0]
     /\ UNCHANGED <<production, clock, nextId, requestHits, uploadHits, served,
                    uploadsServed>>
     /\ UNCHANGED <<buildVars, viewerVars, pages, searchVars, selVars, renderVars, chatVars, dropVars>>

\* The 15 minute window of the limiters ends.
WindowExpires ==
  /\ \E ip \in Clients : served[ip] > 0
  /\ requestHits' = [ip \in Clients |-> 0]
  /\ uploadHits' = [ip \in Clients |-> 0]
  /\ served' = [ip \in Clients |-> 0]
  /\ uploadsServed' = [ip \in Clients |-> 0]
  /\ UNCHANGED <<production, clock, fileDatabase, disk, nextId, reply>>
  /\ UNCHANGED <<buildVars, viewerVars, pages, searchVars, selVars, renderVars, chatVars, dropVars>>

ClientIdle ==
  /\ BuildIdle
  /\ file = <<>>
  /\ ViewerIdle
  /\ SearchIdle
  /\ SelectIdle
  /\ RenderIdle

\* The server in its default configuration (NODE_ENV unset).
ServerInit ==
  /\ ClientIdle
  /\ ChatIdle
  /\ DropIdle
  /\ ServerIdle

ServerNext ==
  \/ \E ip \in Clients, parts \in UploadRequests :
       uploadsServed[ip] < MaxUploads /\ Upload(ip, parts)
  \/ \E ip \in Clients, id \in 1..MaxIds, unlinkFails \in BOOLEAN :
       served[ip] < MaxUploads /\ DeleteFile(ip, id, unlinkFails)
  \/ \E h \in TickHours : Tick(h)
  \/ \E locked \in SUBSET Paths(fileDatabase) : CleanupOldFiles(locked)

SpecServer == ServerInit /\ [][ServerNext]_vars

\* The server in either configuration, under requests and small uploads.
LimiterInit ==
  /\ ClientIdle
  /\ ChatIdle
  /\ DropIdle
  /\ production \in BOOLEAN
  /\ clock = 0
  /\ fileDatabase = <<>>
  /\ disk = {}
  /\ nextId = 1
  /\ requestHits = [ip \in Clients |-> 0]
  /\ uploadHits = [ip \in Clients |-> 0]
  /\ served = [ip \in Clients |-> 0]
  /\ uploadsServed = [ip \in Clients |-> 0]
  /\ reply = NoReply

LimiterNext ==
  \/ \E ip \in Clients : Request(ip)
  \/ \E ip \in Clients, parts \in {<<PdfPart>>, <<ExePart>>} : Upload(ip, parts)
  \/ WindowExpires

SpecLimiter == LimiterInit /\ [][LimiterNext]_vars

(***************************************************************************)
(* Properties of the upload server.                                        *)
(***************************************************************************)
AllowedEntry(meta) ==
  /\ meta.mimetype \in allowedTypes
  /\ ToLowerCase(ExtName(meta.originalName)) \in allowedExtensions

HasRefusedFile(parts) ==
  \E k \in 1..Len(parts) :
    ~(/\ parts[k].mimetype \in allowedTypes
      /\ ToLowerCase(ExtName(parts[k].originalname)) \in allowedExtensions)

\* C16: every entry of the metadata store has an allowed MIME type and an
\* original name with the extension .pdf, .doc or .docx (in any letter
\* case); an upload that contains a file failing either test is answered
\* with status 400 and adds no entry.
C16_OnlyDocumentsStored ==
  /\ [](\A k \in 1..Len(fileDatabase) : AllowedEntry(fileDatabase[k]))
  /\ [][\A ip \in Clients, parts \in UploadRequests :
          HasRefusedFile(parts) /\ Upload(ip, parts) =>
            reply'.status = 400 /\ fileDatabase' = fileDatabase]_vars

\* C17: after a run of the cleanup no entry uploaded more than 24 hours ago
\* is left in the store or on disk, and every younger entry is still there;
\* this for every entry whose own file could be deleted, whatever happened
\* to the others.
C17_CleanupRemovesOld ==
  [][\A locked \in SUBSET Paths(fileDatabase) :
       CleanupOldFiles(locked) =>
         \A k \in 1..Len(fileDatabase) :
           LET meta == fileDatabase[k]
           IN IF IsOld(meta, clock)
                THEN meta.path \notin locked =>
                       /\ meta.id \notin Ids(fileDatabase')
                       /\ meta.path \notin disk'
                ELSE meta.id \in Ids(fileDatabase')]_vars

\* C18: in one window the server lets at most 100 requests of one IP reach
\* a route, and at most 10 uploads; in the default configuration as in
\* production.
C18_RateLimited ==
  \A ip \in Clients :
    /\ served[ip] <= RequestsPerWindow
    /\ uploadsServed[ip] <= UploadsPerWindow

(***************************************************************************)
(* The chat panel (ChatManager.sendMessage), PDFViewer.askAI and callAPI.  *)
(***************************************************************************)
MaxCalls == 2

MaxSends == 1

Hi == <<"h", "i">>

Blank == <<" ", " ">>

AnalyzeIt == <<"a", "n", "a", "l", "y", "z", "e", " ", "i", "t">>

SummaryPlease == <<"S", "u", "m", "m", "a", "r", "y">>

SummarizeIt == <<" ", "s", "u", "m", "m", "a", "r", "i", "z", "e">>

ExplainSummary ==
  <<"s", "u", "m", "m", "a", "r", "y", " ", "E", "X", "P", "L", "A", "I", "N">>

\* What the user types into #chat-input.
ChatInputs == {Blank, Hi, AnalyzeIt, SummaryPlease, SummarizeIt, ExplainSummary}

\* What the user answers to askAI's prompt (<<>>: cancelled or empty).
Questions == { <<>>, AnalyzeIt }

\* The kinds of response of the backend: a body with the analysis, summary
\* or answer field, a body with none of them, 401, 402, or a failure.
Responses == {"analysis", "summary", "answer", "odd", "401", "402", "error"}

CreditValues == {7}

ReplyText == <<"o", "k">>

Fallback == <<"r", "e", "t", "r", "y">>

Sorry == <<"s", "o", "r", "r", "y">>

Word(s) ==
  CASE s = "explain" -> <<"e", "x", "p", "l", "a", "i", "n">>
    [] s = "analyze" -> <<"a", "n", "a", "l", "y", "z", "e">>
    [] s = "summarize" -> <<"s", "u", "m", "m", "a", "r", "i", "z", "e">>
    [] s = "summary" -> <<"s", "u", "m", "m", "a", "r", "y">>

\* a || b on strings
OrElse(a, b) == IF a # <<>> THEN a ELSE b

\* Mutant: the summarize branch passes the cost of the question branch.
RouteCostCopied(message, last) ==
  LET lower == ToLowerCase(message)
  IN IF Includes(lower, Word("explain")) \/ Includes(lower, Word("analyze"))
       THEN [ endpoint |-> "/pdf/analyze", cost |-> 2,
              data |-> [text |-> OrElse(last, message), question |-> message] ]
     ELSE IF Includes(lower, Word("summarize")) \/ Includes(lower, Word("summary"))
       THEN [ endpoint |-> "/pdf/summarize", cost |-> 3,
              data |-> [text |-> OrElse(last, message), question |-> <<>>] ]
     ELSE [ endpoint |-> "/pdf/ask", cost |-> 3,
            data |-> [text |-> OrElse(last, <<>>), question |-> message] ]

\* sendMessage's choice of endpoint, payload and required credits.
Route(message, last) ==
  LET lower == ToLowerCase(message)
  IN IF Includes(lower, Word("explain")) \/ Includes(lower, Word("analyze"))
       THEN [ endpoint |-> "/pdf/analyze", cost |-> 2,
              data |-> [text |-> OrElse(last, message), question |-> message] ]
     ELSE IF Includes(lower, Word("summarize")) \/ Includes(lower, Word("summary"))
       THEN [ endpoint |-> "/pdf/summarize", cost |-> 4,
              data |-> [text |-> OrElse(last, message), question |-> <<>>] ]
     ELSE [ endpoint |-> "/pdf/ask", cost |-> 3,
            data |-> [text |-> OrElse(last, <<>>), question |-> message] ]

\* callAPI(endpoint, 'POST', data, requiresCredits) up to its fetch.
CallAPI(origin, message, call) ==
  [ origin |-> origin, message |-> message, endpoint |-> call.endpoint,
    cost |-> call.cost, data |-> call.data, phase |-> "fetch" ]

Bubble(from, text) == [from |-> from, text |-> text]

Drop(seq, k) == SubSeq(seq, 1, k - 1) \o SubSeq(seq, k + 1, Len(seq))

\* The input event of #chat-input.
ChatType(value) ==
  /\ value # chatInput
  /\ chatInput' = value
  /\ sendBtnDisabled' = SendDisabled(value)
  /\ UNCHANGED <<selection, selTimers, mouseTimers, lastSelectedText, selectionCount,
                 selectionInfoShown, contextMenuShown, chatManager, selHist>>
  /\ UNCHANGED <<buildVars, viewerVars, pages, searchVars, renderVars, serverVars, chatVars, dropVars>>

\* A click on #send-btn, or Enter in #chat-input while the button is enabled:
\* sendMessage up to its await.
SendMessage ==
  /\ ~sendBtnDisabled
  /\ Len(apiCalls) < MaxCalls
  /\ LET message == Trim(chatInput)
         call == CallAPI("chat", message, Route(message, lastSelectedText))
     IN IF message = <<>>
          THEN UNCHANGED <<chatInput, sendBtnDisabled, apiCalls, chatMessages, apiLog>>
          ELSE /\ chatMessages' = Append(chatMessages, Bubble("user", message))
               /\ chatInput' = <<>>
               /\ sendBtnDisabled' = TRUE
               /\ apiCalls' = Append(apiCalls, call)
               /\ apiLog' = Append(apiLog, call)
  /\ UNCHANGED <<selection, selTimers, mouseTimers, lastSelectedText, selectionCount,
                 selectionInfoShown, contextMenuShown, chatManager, selHist>>
  /\ UNCHANGED <<askAiBtnDisabled, creditCount>>
  /\ UNCHANGED <<buildVars, viewerVars, pages, searchVars, renderVars, serverVars, dropVars>>

\* A click on #ask-ai-btn: askAI up to its await.
AskAI(question) ==
  /\ ~askAiBtnDisabled
  /\ Len(apiCalls) < MaxCalls
  /\ LET selectedText == GetSelectedText(selection)
         call == CallAPI("askAI", question,
                         [ endpoint |-> "/pdf/ask", cost |-> 3,
                           data |-> [text |-> selectedText, question |-> question] ])
     IN IF selectedText = <<>> \/ question = <<>>
          THEN UNCHANGED <<askAiBtnDisabled, apiCalls, apiLog>>
          ELSE /\ askAiBtnDisabled' = TRUE
               /\ apiCalls' = Append(apiCalls, call)
               /\ apiLog' = Append(apiLog, call)
  /\ UNCHANGED <<chatMessages, creditCount>>
  /\ UNCHANGED <<buildVars, viewerVars, pages, searchVars, selVars, renderVars, serverVars, dropVars>>

\* The text sendMessage shows for a result.
ResultText(response) ==
  IF response \in {"analysis", "summary", "answer"} THEN ReplyText ELSE Fallback

\* A finally block that leaves both buttons as they are.
SettleKeepsBusy(k) ==
  /\ apiCalls' = Drop(apiCalls, k)
  /\ UNCHANGED <<sendBtnDisabled, askAiBtnDisabled>>

\* The finally block of sendMessage or askAI for call k.
Settle(k) ==
  /\ apiCalls' = Drop(apiCalls, k)
  /\ IF apiCalls[k].origin = "chat"
       THEN sendBtnDisabled' = FALSE /\ UNCHANGED askAiBtnDisabled
       ELSE askAiBtnDisabled' = FALSE /\ UNCHANGED sendBtnDisabled

\* The fetch of call k is answered: callAPI returns or throws, and the caller
\* runs on to its next await or to its end.
ApiRespond(k, response) ==
  /\ k \in 1..Len(apiCalls)
  /\ apiCalls[k].phase = "fetch"
  /\ LET call == apiCalls[k]
         hasResult == response \in {"analysis", "summary", "answer", "odd"}
     IN IF hasResult /\ (call.origin = "chat" \/ chatManager)
          THEN /\ chatMessages' =
                    Append(chatMessages,
                           Bubble("ai", IF call.origin = "chat" THEN ResultText(response)
                                        ELSE IF response = "answer" THEN ReplyText
                                        ELSE <<>>))
               /\ apiCalls' = [apiCalls EXCEPT ![k].phase = "credits"]
               /\ UNCHANGED <<sendBtnDisabled, askAiBtnDisabled>>
          ELSE /\ chatMessages' =
                    IF response = "error" /\ call.origin = "chat"
                      THEN Append(chatMessages, Bubble("ai", Sorry))
                      ELSE chatMessages
               /\ Settle(k)
  /\ UNCHANGED <<selection, selTimers, mouseTimers, lastSelectedText, selectionCount,
                 selectionInfoShown, contextMenuShown, chatManager, chatInput, selHist>>
  /\ UNCHANGED <<apiLog, creditCount>>
  /\ UNCHANGED <<buildVars, viewerVars, pages, searchVars, renderVars, serverVars, dropVars>>

\* updateCreditStatus awaited by call k ends: ok with the credits the server
\* reports, or not; the caller runs its finally block.
CreditsDone(k, ok, credits) ==
  /\ k \in 1..Len(apiCalls)
  /\ apiCalls[k].phase = "credits"
  /\ creditCount' = IF ok THEN credits ELSE creditCount
  /\ chatMessages' = chatMessages
  /\ Settle(k)
  /\ UNCHANGED <<selection, selTimers, mouseTimers, lastSelectedText, selectionCount,
                 selectionInfoShown, contextMenuShown, chatManager, chatInput, selHist>>
  /\ UNCHANGED apiLog
  /\ UNCHANGED <<buildVars, viewerVars, pages, searchVars, renderVars, serverVars, dropVars>>

ChatInit ==
  /\ BuildIdle
  /\ file = <<>>
  /\ ViewerIdle
  /\ SearchIdle
  /\ RenderIdle
  /\ ServerIdle
  /\ ChatIdle
  /\ DropIdle
  /\ selection \in {NoSelection, [text |-> Cat, ranged |-> TRUE]}
  /\ selTimers = 0
  /\ mouseTimers = 0
  /\ lastSelectedText = GetSelectedText(selection)
  /\ selectionCount = Len(lastSelectedText)
  /\ selectionInfoShown = (lastSelectedText # <<>>)
  /\ contextMenuShown = FALSE
  /\ chatManager = TRUE
  /\ chatInput = <<>>
  /\ sendBtnDisabled = TRUE
  /\ selHist = NoSelHist

ChatNext ==
  \/ \E value \in ChatInputs : ChatType(value)
  \/ Len(apiLog) < MaxSends /\ SendMessage
  \/ \E question \in Questions : Len(apiLog) < MaxSends /\ AskAI(question)
  \/ \E k \in 1..MaxCalls, response \in Responses : ApiRespond(k, response)
  \/ \E k \in 1..MaxCalls, ok \in BOOLEAN, credits \in CreditValues :
       CreditsDone(k, ok, credits)

SpecChat == ChatInit /\ [][ChatNext]_vars

(***************************************************************************)
(* Properties of the chat panel.                                           *)
(***************************************************************************)
CostOf(endpoint) ==
  CASE endpoint = "/pdf/analyze" -> 2
    [] endpoint = "/pdf/ask" -> 3
    [] endpoint = "/pdf/summarize" -> 4
    [] OTHER -> 0

\* The word occurs somewhere in the message, in any letter case.
Contains(message, word) ==
  \E i \in 0..Len(ToLowerCase(message)) : OccursAt(ToLowerCase(message), Word(word), i)

EndpointFor(message) ==
  IF Contains(message, "explain") \/ Contains(message, "analyze") THEN "/pdf/analyze"
  ELSE IF Contains(message, "summarize") \/ Contains(message, "summary")
    THEN "/pdf/summarize"
  ELSE "/pdf/ask"

ChatCalls == SelectSeq(apiLog, LAMBDA c : c.origin = "chat")

UserBubbles == SelectSeq(chatMessages, LAMBDA b : b.from = "user")

\* C19: every request to /pdf/analyze carries cost 2, to /pdf/ask cost 3, to
\* /pdf/summarize cost 4; a chat message goes to analyze if it contains
\* 'explain' or 'analyze', else to summarize if it contains 'summarize' or
\* 'summary', else to ask; and the messages sent are, one for one and in
\* order, the requests made by the chat.
C19_CostMatchesEndpoint ==
  /\ \A k \in 1..Len(apiLog) :
       /\ apiLog[k].endpoint \in {"/pdf/analyze", "/pdf/ask", "/pdf/summarize"}
       /\ apiLog[k].cost = CostOf(apiLog[k].endpoint)
       /\ apiLog[k].origin = "chat" =>
            apiLog[k].endpoint = EndpointFor(apiLog[k].message)
  /\ Len(UserBubbles) = Len(ChatCalls)
  /\ \A k \in 1..Len(ChatCalls) : UserBubbles[k].text = ChatCalls[k].message

\* A message with both 'summary' and 'EXPLAIN' has been sent and answered.
C19_Witness ==
  /\ Len(apiLog) = 1
  /\ apiLog[1].origin = "chat"
  /\ apiLog[1].message = ExplainSummary
  /\ apiLog[1].endpoint = "/pdf/analyze"
  /\ apiCalls = <<>>
  /\ Len(chatMessages) = 2

(***************************************************************************)
(* Zoom changes against render passes, with a library that never fails.    *)
(***************************************************************************)
ZoomNext ==
  \/ \E doc \in RenderDocuments : LoadDocument(doc)
  \/ \E value \in ZoomValues : ZoomChange(value)
  \/ \E i \in PassKinds : PassContinue(i)
  \/ \E i \in PassKinds : PageFetched(i, TRUE)
  \/ \E i \in PassKinds : PageDrawn(i, TRUE, SoundEnv)

SpecZoom == RenderInit /\ [][ZoomNext]_vars

\* Page k of the document is in the viewer, drawn at scale s with its
\* overlay built for that scale.
ShownAt(k, s) ==
  LET t == FirstSheet(sheets, k)
  IN /\ t # 0
     /\ sheets[t].canvas = s
     /\ pages[t].spans =
          CreateTextLayer(GetTextContent(file[k]), <<>>, GetViewport(file[k], s))

\* C21: whenever no render pass is under way, every page of the document is
\* drawn, canvas and overlay, at the scale selected last; none is left at an
\* older scale.
C21_ZoomSupersedes ==
  (pdfDoc /\ \A i \in PassKinds : passes[i].phase = "idle") =>
    \A k \in 1..Len(file) : ShownAt(k, scale)

(***************************************************************************)
(* Search against re-render passes: the viewer of the render passes with   *)
(* the search handlers, and a library that never fails.                    *)
(***************************************************************************)
RebuildInputs == { <<>>, <<" ", "C", "A", "T", " ">> }

RebuildInit == RenderInit /\ textLayerApi = FALSE

RebuildNext ==
  \/ ~pdfDoc /\ LoadDocument(<<PageHello, PageCats>>)
  \/ \E value \in ZoomValues : ZoomChange(value)
  \/ \E i \in PassKinds : PassContinue(i)
  \/ \E i \in PassKinds : PageFetched(i, TRUE)
  \/ \E i \in PassKinds : PageDrawn(i, TRUE, SoundEnv)
  \/ \E v \in RebuildInputs : TypeSearch(v)
  \/ HandleSearch
  \/ GoToNextMatch
  \/ GoToPreviousMatch

SpecRebuild == RebuildInit /\ [][RebuildNext]_vars

NoMarks(pg) == \A j \in 1..Len(pg.spans) : ~HasMark(pg.spans[j])

\* The match list is not empty and the overlay has no marker of the current
\* index.
Stale ==
  /\ Len(searchMatches) > 0
  /\ MarksOf(pages, currentSearchIndex) = {}

\* C22: a page's overlay rebuilt by a render pass has no highlight marker,
\* and the rebuild leaves the match list and the current index as they
\* were; when the marker of the index that nextMatch or previousMatch moves
\* to is not in the overlay, the index moves all the same, no marker
\* becomes the current one and the viewer does not change page.
C22_RebuildKeepsSearchState ==
  /\ [][\A i \in PassKinds :
          passes[i].phase = "draw" /\ passes[i].target # 0
            /\ PageDrawn(i, TRUE, SoundEnv) =>
              /\ NoMarks(pages'[passes[i].target])
              /\ searchMatches' = searchMatches
              /\ currentSearchIndex' = currentSearchIndex]_vars
  /\ [][Stale /\ (GoToNextMatch \/ GoToPreviousMatch)
          /\ MarksOf(pages, currentSearchIndex') = {} =>
            /\ Len(searchMatches) > 1 => currentSearchIndex' # currentSearchIndex
            /\ CurrentMarks(pages') = {}
            /\ currentPage' = currentPage
            /\ searchMatches' = searchMatches]_vars

\* After a search with two matches a zoom change has rebuilt every page, and
\* nextMatch has then moved the index.
C22_Witness ==
  /\ Stale
  /\ \A i \in PassKinds : passes[i].phase = "idle"
  /\ \A p \in 1..Len(pages) : NoMarks(pages[p])
  /\ Len(searchMatches) = 2
  /\ hist.op = "next"
  /\ currentSearchIndex = 1
  /\ scale = 2

(***************************************************************************)
(* The chat panel under repeated sends of one message.                     *)
(***************************************************************************)
MaxBusy == 2

BusyInputs == {Blank, Hi}

BusyResponses == {"answer", "402", "error"}

BusyNext ==
  \/ \E value \in BusyInputs : ChatType(value)
  \/ Len(apiLog) < MaxBusy /\ SendMessage
  \/ \E k \in 1..MaxCalls, response \in BusyResponses : ApiRespond(k, response)
  \/ \E k \in 1..MaxCalls, credits \in CreditValues : CreditsDone(k, TRUE, credits)

SpecBusy == ChatInit /\ [][BusyNext]_vars

InFlight == {k \in 1..Len(apiCalls) : apiCalls[k].origin = "chat"}

\* C23: sendMessage starts a request whatever is pending, and an input event
\* sets the send button by the input alone, also while a request is pending;
\* so a second request can be sent before the first is answered.
C23_SecondRequestNotPrevented ==
  /\ [][SendMessage /\ Trim(chatInput) # <<>> =>
          /\ Len(apiCalls') = Len(apiCalls) + 1
          /\ apiCalls'[Len(apiCalls')].phase = "fetch"
          /\ \A k \in 1..Len(apiCalls) : apiCalls'[k] = apiCalls[k]]_vars
  /\ [][\A value \in BusyInputs :
          ChatType(value) => sendBtnDisabled' = (Trim(value) = <<>>)]_vars

\* Two chat requests await their responses at the same time.
C23_Witness ==
  /\ Cardinality(InFlight) = 2
  /\ \A k \in InFlight : apiCalls[k].phase = "fetch"

(***************************************************************************)
(* Failed and empty answers to sendMessage.                                *)
(***************************************************************************)
AiBubbles == {j \in 1..Len(chatMessages) : chatMessages[j].from = "ai"}

Asked(message) == \E j \in 1..Len(chatMessages) : chatMessages[j] = Bubble("user", message)

\* C24: when the fetch of a chat request throws, sendMessage appends one
\* apology after the user's message, starts no further backend call, ends
\* (the request is no longer pending) and enables the send button; when
\* callAPI returns null (401, 402) no bubble is appended.  Every user message
\* has exactly one logged backend call.
C24_FailureAbandoned ==
  /\ [][\A k \in 1..Len(apiCalls) :
          apiCalls[k].origin = "chat" /\ ApiRespond(k, "error") =>
            /\ chatMessages' = Append(chatMessages, Bubble("ai", Sorry))
            /\ Asked(apiCalls[k].message)
            /\ apiLog' = apiLog
            /\ apiCalls' = Drop(apiCalls, k)
            /\ sendBtnDisabled' = FALSE]_vars
  /\ [][\A k \in 1..Len(apiCalls) :
          apiCalls[k].origin = "chat" /\ (ApiRespond(k, "401") \/ ApiRespond(k, "402")) =>
            /\ chatMessages' = chatMessages
            /\ apiLog' = apiLog
            /\ apiCalls' = Drop(apiCalls, k)]_vars
  /\ [](Len(ChatCalls) = Len(UserBubbles))

\* A chat request has failed: one call logged, none pending, the apology
\* directly after the user's message, the send button enabled.
C24_Witness ==
  /\ Len(chatMessages) = 2
  /\ chatMessages[1].from = "user"
  /\ chatMessages[2] = Bubble("ai", Sorry)
  /\ Len(ChatCalls) = 1
  /\ apiCalls = <<>>
  /\ ~sendBtnDisabled

\* C28: whenever no chat request is pending, the send button is enabled
\* exactly when the chat input holds non-whitespace text.
C28_SendButtonTracksInput ==
  InFlight = {} => (sendBtnDisabled <=> Trim(chatInput) = <<>>)

(***************************************************************************)
(* Consistency of the search state and of the overlay's text.              *)
(***************************************************************************)
\* C25: with every overlay built at most once, either there is no match, the
\* index is -1 and the overlay has no marker, or there are n >= 1 matches,
\* the index is in 0..n-1, the overlay has exactly n markers, one per tag
\* 0..n-1, exactly the marker tagged with the index is 'current' and the
\* counter reads "index+1 of n"; the previous and next buttons are enabled
\* exactly when n >= 1.
C25_SearchStateConsistent ==
  LET n == Len(searchMatches)
  IN /\ IF n = 0
          THEN /\ currentSearchIndex = -1
               /\ AllMarks(pages) = {}
          ELSE /\ currentSearchIndex \in 0..(n - 1)
               /\ Cardinality(AllMarks(pages)) = n
               /\ \A k \in 0..(n - 1) : Cardinality(MarksOf(pages, k)) = 1
               /\ CurrentMarks(pages) = MarksOf(pages, currentSearchIndex)
               /\ searchResults = <<currentSearchIndex + 1, n>>
     /\ searchPrevDisabled = (n = 0)
     /\ searchNextDisabled = (n = 0)

\* previousMatch has wrapped from the first to the last of three or more
\* matches.
C25_Witness ==
  /\ hist.op = "prev"
  /\ hist.from = 0
  /\ Len(searchMatches) >= 3
  /\ currentSearchIndex = Len(searchMatches) - 1
  /\ Cardinality(CurrentMarks(pages)) = 1

\* The text with which createTextLayer built span i of layer p.
BuiltText(p, i) == TextContent(BuiltLayers[p].spans[i])

TextKept ==
  \A p \in 1..Len(pages) :
    /\ Len(pages[p].spans) = Len(BuiltLayers[p].spans)
    /\ \A i \in 1..Len(pages[p].spans) : TextContent(pages[p].spans[i]) = BuiltText(p, i)

MarkedIsTerm ==
  hist.op = "search" =>
    \A pos \in AllMarks(pages) :
      ToLowerCase(ChildAt(pages, pos).data) = ToLowerCase(hist.term)

\* C26: in every state reached by search, next, previous and clear the plain
\* text of each overlay node is the text it was built with, and after a
\* search the text inside every marker equals the term case-insensitively.
C26_TextPreserved == TextKept /\ MarkedIsTerm

(***************************************************************************)
(* Page navigation: previous, next and the page input.                     *)
(***************************************************************************)
\* What the user may leave in #page-input when its change event fires.
PageTexts ==
  { <<"1">>, <<"2">>, <<"3">>, <<"0">>, <<"-", "1">>, <<"9">>, <<" ", "2">>,
    <<"2", ".", "7">>, <<>>, <<"a", "b", "c">> }

\* previousPage()
PreviousPage ==
  /\ currentPage' = IF JsLessEq(currentPage, 1) THEN currentPage
                    ELSE JsAdd(currentPage, -1)
  /\ UNCHANGED <<file, pdfDoc, scale, rendering, renderPos>>
  /\ UNCHANGED <<buildVars, pages, searchVars, selVars, extVars>>

\* nextPage()
NextPage ==
  /\ currentPage' = IF ~pdfDoc \/ JsLessEq(Len(file), currentPage) THEN currentPage
                    ELSE JsAdd(currentPage, 1)
  /\ UNCHANGED <<file, pdfDoc, scale, rendering, renderPos>>
  /\ UNCHANGED <<buildVars, pages, searchVars, selVars, extVars>>

\* The change event of #page-input: goToPage(parseInt(e.target.value)).
PageInputChange(text) ==
  /\ GoToPage(ParseInt(text))
  /\ UNCHANGED <<file, pdfDoc, scale, rendering, renderPos>>
  /\ UNCHANGED <<buildVars, pages, searchVars, selVars, extVars>>

NavInit ==
  /\ ExtIdle
  /\ file \in UNION { [1..n -> {PageHello, PageCats, PageOdd}] : n \in 1..(NumPages + 1) }
  /\ ViewerIdle
  /\ SearchIdle
  /\ BuildIdle
  /\ SelectIdle

NavNext ==
  \/ LoadPDF
  \/ RenderPageDone
  \/ PreviousPage
  \/ NextPage
  \/ \E text \in PageTexts : PageInputChange(text)

SpecNav == NavInit /\ [][NavNext]_vars

ValidPage(n) == n # NaN /\ n \in 1..Len(file)

\* C27: with a document loaded, currentPage is an integer in 1..numPages
\* after any previousPage, nextPage and page-input change; previousPage at
\* page 1, nextPage at the last page and a page input that does not parse to
\* a page of the document leave currentPage unchanged.
C27_PageInRange ==
  /\ [](pdfDoc => ValidPage(currentPage))
  /\ [][pdfDoc /\ PreviousPage /\ currentPage = 1 => currentPage' = currentPage]_vars
  /\ [][pdfDoc /\ NextPage /\ currentPage = Len(file) => currentPage' = currentPage]_vars
  /\ [][\A text \in PageTexts :
          pdfDoc /\ PageInputChange(text) /\ ~ValidPage(ParseInt(text)) =>
            currentPage' = currentPage]_vars

(***************************************************************************)
(* UserDropdown: open, close, the auto-expand timer.                       *)
(***************************************************************************)
MaxPending == 3

TickMs == 50

ExpandDelay == 100

CloseDelay == 150

Timer(kind, left) == [kind |-> kind, left |-> left]

\* closeDropdown()
CloseDropdown ==
  /\ dropdownOpen' = FALSE
  /\ itemsExpanded' = FALSE

\* openDropdown(): the class is added and the auto-expand timer started;
\* no earlier timer is cancelled.
OpenDropdown ==
  /\ dropdownOpen' = TRUE
  /\ dropTimers' = Append(dropTimers, Timer("expand", ExpandDelay))
  /\ UNCHANGED itemsExpanded

DropRest ==
  UNCHANGED <<buildVars, viewerVars, pages, searchVars, selVars, renderVars,
              serverVars, chatVars>>

\* A click on #user-profile-trigger: toggleDropdown().
TriggerClick ==
  /\ IF dropdownOpen
       THEN CloseDropdown /\ UNCHANGED dropTimers
       ELSE Len(dropTimers) < MaxPending /\ OpenDropdown
  /\ UNCHANGED collapseText
  /\ DropRest

\* A click outside #user-dropdown.
OutsideClick ==
  /\ CloseDropdown
  /\ UNCHANGED <<collapseText, dropTimers>>
  /\ DropRest

\* keydown with key 'Escape'.
EscapeKey ==
  /\ CloseDropdown
  /\ UNCHANGED <<collapseText, dropTimers>>
  /\ DropRest

\* A click on #dropdown-collapse in the open menu: toggleExpanded().
CollapseClick ==
  /\ dropdownOpen
  /\ itemsExpanded' = ~itemsExpanded
  /\ collapseText' = IF itemsExpanded THEN "right" ELSE "down"
  /\ UNCHANGED <<dropdownOpen, dropTimers>>
  /\ DropRest

\* A click on a menu item other than dark mode: handleMenuAction starts the
\* timer that closes the dropdown.
MenuItemClick ==
  /\ dropdownOpen
  /\ Len(dropTimers) < MaxPending
  /\ dropTimers' = Append(dropTimers, Timer("close", CloseDelay))
  /\ UNCHANGED <<dropdownOpen, itemsExpanded, collapseText>>
  /\ DropRest

\* Time passes.
DropTick ==
  /\ \E k \in 1..Len(dropTimers) : dropTimers[k].left > 0
  /\ dropTimers' = [k \in 1..Len(dropTimers) |->
                      [dropTimers[k] EXCEPT !.left = IF @ > TickMs THEN @ - TickMs ELSE 0]]
  /\ UNCHANGED <<dropdownOpen, itemsExpanded, collapseText>>
  /\ DropRest

\* Timer k is due and no timer due before it is pending: its callback runs.
TimerFires(k) ==
  /\ k \in 1..Len(dropTimers)
  /\ dropTimers[k].left = 0
  /\ \A j \in 1..(k - 1) : dropTimers[j].kind # dropTimers[k].kind
  /\ dropTimers' = Drop(dropTimers, k)
  /\ IF dropTimers[k].kind = "expand"
       THEN itemsExpanded' = TRUE /\ UNCHANGED dropdownOpen
       ELSE CloseDropdown
  /\ UNCHANGED collapseText
  /\ DropRest

DropInit == ClientIdle /\ ExtIdle

DropNext ==
  \/ TriggerClick
  \/ OutsideClick
  \/ EscapeKey
  \/ CollapseClick
  \/ MenuItemClick
  \/ DropTick
  \/ \E k \in 1..MaxPending : TimerFires(k)

SpecDrop == DropInit /\ [][DropNext]_vars

ExpandPending == \E k \in 1..Len(dropTimers) : dropTimers[k].kind = "expand"

\* C29: while the dropdown is closed and no auto-expand of an open is pending
\* its item list is not expanded, and no step that leaves the dropdown
\* closed expands the items.
C29_ClosedNotExpanded ==
  /\ []((~dropdownOpen /\ ~ExpandPending) => ~itemsExpanded)
  /\ [][~dropdownOpen /\ ~dropdownOpen' => ~itemsExpanded']_vars

(***************************************************************************)
(* The rendering flag as a lock.                                           *)
(***************************************************************************)
\* Promises settle: a pending getPage or page.render is answered, with a
\* result or with an error.
Settles ==
  \/ \E i \in PassKinds, ok \in BOOLEAN : PageFetched(i, ok)
  \/ \E i \in PassKinds, ok \in BOOLEAN : PageDrawn(i, ok, SoundEnv)

LockNext ==
  \/ \E doc \in RenderDocuments : LoadDocument(doc)
  \/ \E value \in ZoomValues : ZoomChange(value)
  \/ \E i \in PassKinds : PassContinue(i)
  \/ Settles

\* Every pending promise of the library is settled in the end.
SpecLock == RebuildInit /\ [][LockNext]_vars /\ WF_vars(Settles)

\* The renderPage call of pass i returns at the guard in this step.
SkippedBy(i) ==
  /\ Len(passes'[i].seen) = Len(passes[i].seen) + 1
  /\ LastSeen(passes'[i]).outcome = "skipped"

\* The renderPage call of pass i that had set the flag ends in this step.
EndedBy(i) == i \in InProgress /\ i \notin InProgress'

\* C30: the flag is set exactly while one renderPage call is between its
\* start and its end; a call that finds it set returns leaving the flag and the
\* call in progress as they are and draws no canvas or text layer; a call that
\* set it clears it when it ends, with a rendered or a failed page; and a set
\* flag is always cleared again.
C30_FlagReleased ==
  /\ [](rendering <=> Cardinality(InProgress) = 1)
  /\ [][\A i \in PassKinds :
          SkippedBy(i) =>
            /\ rendering /\ rendering'
            /\ InProgress' = InProgress
            /\ passes'[i].phase = "between"
            /\ \A t \in 1..Len(sheets') :
                 sheets'[t] # BlankSheet(sheets'[t].id) =>
                   t <= Len(sheets) /\ sheets'[t] = sheets[t] /\ pages'[t] = pages[t]]_vars
  /\ [][\A i \in PassKinds : EndedBy(i) => ~rendering']_vars
  /\ (rendering ~> ~rendering)

\* A page render has failed after another pass was turned away at the guard,
\* and the flag is clear again.
C30_Witness ==
  \E i \in PassKinds, j \in PassKinds :
    /\ i # j
    /\ ~rendering
    /\ passes[i].seen # <<>>
    /\ LastSeen(passes[i]).outcome = "failed"
    /\ \E l \in 1..Len(passes[j].seen) : passes[j].seen[l].outcome = "skipped"

====
